---- MODULE Spec2Model ----
(***************************************************************************)
(* Rendezvous decomposition of DataTransferKit (DTK_Rendezvous_def.hpp).   *)
(* Every rank of the communicator runs Rendezvous::build on its own source *)
(* mesh; the ranks meet in the RCB partition, in the two distributor       *)
(* exchanges of setupImportCommunication and in the Tpetra import of       *)
(* sendMeshToRendezvous.                                                   *)
(***************************************************************************)
EXTENDS Integers, Sequences, FiniteSets, TLC

\* Size of the communicator.
NumRanks == 3
\* Node coordinates along x are drawn from 0 .. MaxCoord.
MaxCoord == 2

Ranks == 0 .. NumRanks - 1

\* The reserved GlobalOrdinal of "no element found".
Sentinel == 0 - 1

----------------------------------------------------------------------------
(* Containers.  C++ arrays are 0-based; At keeps the code's index          *)
(* arithmetic.  A read outside the array (only possible after a failed     *)
(* map lookup) yields 0.                                                   *)

At(a, i) == IF i >= 0 /\ i < Len(a) THEN a[i + 1] ELSE 0

Range(a) == {a[i] : i \in 1 .. Len(a)}

SetMin(S) == CHOOSE m \in S : \A x \in S : m <= x

SetMax(S) == CHOOSE m \in S : \A x \in S : m >= x

\* std::copy( set.begin(), set.end(), array.begin() ): a std::set iterates
\* in ascending order.
RECURSIVE SetToArray(_)
SetToArray(S) ==
    IF S = {} THEN <<>> ELSE <<SetMin(S)>> \o SetToArray(S \ {SetMin(S)})

RECURSIVE Flatten(_)
Flatten(ss) == IF ss = <<>> THEN <<>> ELSE Head(ss) \o Flatten(Tail(ss))

\* std::map<GlobalOrdinal,ordinal_type> filled by  map[ *it ] = m; ++m.
IndexMap(ids) ==
    [g \in Range(ids) |-> SetMax({m \in 0 .. Len(ids) - 1 : At(ids, m) = g})]

\* map.find( g )->second; a missing key is modelled as index -1.
FindIndex(map, g) == IF g \in DOMAIN map THEN map[g] ELSE 0 - 1

----------------------------------------------------------------------------
(* Mesh traits view of a mesh m:                                           *)
(*   m.node_dim, m.nodes, m.coords (dimension-major blocked),              *)
(*   m.elements, m.nodes_per_element, m.connectivity (slot-major blocked). *)

NumNodesOf(m) == Len(m.nodes)

NumElementsOf(m) == Len(m.elements)

\* node_coords[d] = mesh_coords[ d*num_nodes + n ] for d < node_dim, else 0.0
NodeCoords(m, dim, n) ==
    [d \in 1 .. 3 |->
        IF d - 1 < dim THEN At(m.coords, (d - 1) * NumNodesOf(m) + n) ELSE 0]

\* mesh_connectivity[ i*num_elements + n ]
ConnectivityAt(m, i, n) == At(m.connectivity, i * NumElementsOf(m) + n)

\* BoundingBox::pointInBox: closed on all faces.
PointInBox(box, p) ==
    IF \A d \in 1 .. 3 : box.lo[d] <= p[d] /\ p[d] <= box.hi[d] THEN 1 ELSE 0

----------------------------------------------------------------------------
(* Rendezvous::getMeshInBox                                                *)

\* First loop: one flag per local node, the box test on its padded coordinates.
NodesInBoxByCoords(m, box, dim) ==
    [n \in 1 .. NumNodesOf(m) |-> PointInBox(box, NodeCoords(m, dim, n - 1))]

\* Mutant of ElementsInBox: an element counts only when all its nodes are
\* flagged.
ElementsInBoxAllNodes(m, nib) ==
    [n \in 1 .. NumElementsOf(m) |->
        IF \A i \in 0 .. m.nodes_per_element - 1 :
              At(nib, FindIndex(IndexMap(m.nodes), ConnectivityAt(m, i, n - 1))) # 0
        THEN 1 ELSE 0]

\* Second loop: an element is in the box when one of its nodes is flagged.
ElementsInBox(m, nib) ==
    [n \in 1 .. NumElementsOf(m) |->
        IF \E i \in 0 .. m.nodes_per_element - 1 :
              At(nib, FindIndex(IndexMap(m.nodes), ConnectivityAt(m, i, n - 1))) # 0
        THEN 1 ELSE 0]

\* Third loop: flag every node of every element in the box.
ExpandNodesInBox(m, nib, eib) ==
    [n \in 1 .. NumNodesOf(m) |->
        IF \E e \in 0 .. NumElementsOf(m) - 1, i \in 0 .. m.nodes_per_element - 1 :
              /\ At(eib, e) # 0
              /\ FindIndex(IndexMap(m.nodes), ConnectivityAt(m, i, e)) = n - 1
        THEN 1 ELSE nib[n]]

\* Mutant of GetMeshInBox: the elements are flagged after the expansion of
\* the node flags.
GetMeshInBoxExpandFirst(m, box, dim) ==
    LET nib      == NodesInBoxByCoords(m, box, dim)
        expanded == ExpandNodesInBox(m, nib, ElementsInBox(m, nib))
    IN  [nodes_in_box |-> expanded, elements_in_box |-> ElementsInBox(m, expanded)]

GetMeshInBox(m, box, dim) ==
    LET nib == NodesInBoxByCoords(m, box, dim)
        eib == ElementsInBox(m, nib)
    IN  [nodes_in_box |-> ExpandNodesInBox(m, nib, eib), elements_in_box |-> eib]

\* node_indices.find( node_ordinal ) is not end() for every slot of the
\* connectivity: the lookups of the mesh are defined.
LookupsDefined(m) == Range(m.connectivity) \subseteq Range(m.nodes)

\* What the loops see when find() returns end() and end()->second reads as
\* the index g of a node slot: the slot of an unrelated node.
ReadAsSlot(m, g) ==
    [m EXCEPT !.connectivity =
        [v \in 1 .. Len(m.connectivity) |->
            IF m.connectivity[v] \in Range(m.nodes) THEN m.connectivity[v]
            ELSE At(m.nodes, g)]]

----------------------------------------------------------------------------
(* RCB partitioner.  A point of the cloud is <<rank, local node, coords>>. *)
(* The tree is either a leaf [leaf, proc] or a cut [leaf, axis, cut, lower,*)
(* upper]; points with coordinate <= cut belong to the lower ranks.        *)
(* Each level cuts the longest axis of the bounding box of its points at   *)
(* the weighted median, the ranks being split in proportion; a level left  *)
(* without points repeats the cut of its parent.                           *)

Extent(P, d) ==
    SetMax({t[3][d] : t \in P}) - SetMin({t[3][d] : t \in P})

LongestAxis(P) ==
    CHOOSE d \in 1 .. 3 :
        /\ \A e \in 1 .. 3 : Extent(P, e) <= Extent(P, d)
        /\ \A e \in 1 .. d - 1 : Extent(P, e) < Extent(P, d)

\* The k-th smallest coordinate of the cloud along axis d (k >= 1).
KthSmallest(P, d, k) ==
    CHOOSE v \in {t[3][d] : t \in P} :
        /\ Cardinality({t \in P : t[3][d] < v}) < k
        /\ k <= Cardinality({t \in P : t[3][d] <= v})

RECURSIVE RcbBisect(_, _, _, _, _)
RcbBisect(P, lo, hi, paxis, pcut) ==
    IF lo = hi THEN [leaf |-> TRUE, proc |-> lo]
    ELSE LET n    == hi - lo + 1
             nl   == n \div 2
             axis == IF P = {} THEN paxis ELSE LongestAxis(P)
             k    == (Cardinality(P) * nl + n - 1) \div n
             cut  == IF P = {} THEN pcut ELSE KthSmallest(P, axis, k)
             low  == {t \in P : t[3][axis] <= cut}
         IN  [leaf  |-> FALSE, axis |-> axis, cut |-> cut,
              lower |-> RcbBisect(low, lo, lo + nl - 1, axis, cut),
              upper |-> RcbBisect(P \ low, lo + nl, hi, axis, cut)]

\* RCB::getDestinationProc: a point on a cut goes to the lower ranks.
RECURSIVE GetDestinationProc(_, _)
GetDestinationProc(tree, p) ==
    IF tree.leaf THEN tree.proc
    ELSE IF p[tree.axis] <= tree.cut
         THEN GetDestinationProc(tree.lower, p)
         ELSE GetDestinationProc(tree.upper, p)

----------------------------------------------------------------------------
(* Rendezvous::setupImportCommunication                                    *)

\* Mutant of ExportElementProcsSet: only the first node of an element is
\* routed.
ExportElementProcsSetFirstNode(m, dim, eib, rcb) ==
    [n \in 1 .. NumElementsOf(m) |->
        IF At(eib, n - 1) # 0
        THEN {GetDestinationProc(rcb,
                 NodeCoords(m, dim,
                    FindIndex(IndexMap(m.nodes), ConnectivityAt(m, 0, n - 1))))}
        ELSE {}]

\* Mutant of ExportElementProcsSet: the in-box flag is not consulted.
ExportElementProcsSetNoFilter(m, dim, eib, rcb) ==
    [n \in 1 .. NumElementsOf(m) |->
        {GetDestinationProc(rcb,
            NodeCoords(m, dim,
               FindIndex(IndexMap(m.nodes), ConnectivityAt(m, i, n - 1)))) :
         i \in 0 .. m.nodes_per_element - 1}]

\* export_element_procs_set: for every element in the box, the set of the
\* destination procs of its nodes.
ExportElementProcsSet(m, dim, eib, rcb) ==
    [n \in 1 .. NumElementsOf(m) |->
        IF At(eib, n - 1) # 0
        THEN {GetDestinationProc(rcb,
                 NodeCoords(m, dim,
                    FindIndex(IndexMap(m.nodes), ConnectivityAt(m, i, n - 1)))) :
              i \in 0 .. m.nodes_per_element - 1}
        ELSE {}]

\* Mutant of UnrollOrdinals: the local index is exported in place of the
\* global ordinal.
UnrollLocalIndices(ids, sets) ==
    Flatten([n \in 1 .. Len(sets) |->
                [j \in 1 .. Cardinality(sets[n]) |-> n - 1]])

\* Unrolling a vector of sets: the ordinal of entry n once per member of
\* sets[n], and the members themselves, as two parallel arrays.
UnrollOrdinals(ids, sets) ==
    Flatten([n \in 1 .. Len(sets) |->
                [j \in 1 .. Cardinality(sets[n]) |-> At(ids, n - 1)]])

\* Mutant of UnrollProcs: every copy of an entry goes to the lowest proc of
\* its set.
UnrollProcsLowest(sets) ==
    Flatten([n \in 1 .. Len(sets) |->
                [j \in 1 .. Cardinality(sets[n]) |-> SetMin(sets[n])]])

UnrollProcs(sets) ==
    Flatten([n \in 1 .. Len(sets) |-> SetToArray(sets[n])])

\* Mutant of ExportNodeProcsSet: the last node slot of an element is left
\* out.
ExportNodeProcsSetShortLoop(m, export_elements, export_element_procs) ==
    [n \in 1 .. NumNodesOf(m) |->
        {At(export_element_procs, j) :
            j \in {jj \in 0 .. Len(export_elements) - 1 :
                     \E i \in 0 .. m.nodes_per_element - 2 :
                        FindIndex(IndexMap(m.nodes),
                           ConnectivityAt(m, i,
                              FindIndex(IndexMap(m.elements),
                                        At(export_elements, jj)))) = n - 1}}]

\* Mutant of ExportNodeProcsSet: a node takes the destination of the first
\* export entry that contains it and the search stops there.
ExportNodeProcsSetFirstEntry(m, export_elements, export_element_procs) ==
    [n \in 1 .. NumNodesOf(m) |->
        LET entries == {jj \in 0 .. Len(export_elements) - 1 :
                          \E i \in 0 .. m.nodes_per_element - 1 :
                             FindIndex(IndexMap(m.nodes),
                                ConnectivityAt(m, i,
                                   FindIndex(IndexMap(m.elements),
                                             At(export_elements, jj)))) = n - 1}
        IN  IF entries = {} THEN {}
            ELSE {At(export_element_procs, SetMin(entries))}]

\* export_node_procs_set: every node of an exported element goes where the
\* element goes.
ExportNodeProcsSet(m, export_elements, export_element_procs) ==
    [n \in 1 .. NumNodesOf(m) |->
        {At(export_element_procs, j) :
            j \in {jj \in 0 .. Len(export_elements) - 1 :
                     \E i \in 0 .. m.nodes_per_element - 1 :
                        FindIndex(IndexMap(m.nodes),
                           ConnectivityAt(m, i,
                              FindIndex(IndexMap(m.elements),
                                        At(export_elements, jj)))) = n - 1}}]

\* Mutant of SendsTo: the last export entry is never sent.
RECURSIVE SendsToDropLast(_, _, _)
SendsToDropLast(ordinals, procs, r) ==
    IF Len(ordinals) <= 1 THEN <<>>
    ELSE (IF Head(procs) = r THEN <<Head(ordinals)>> ELSE <<>>)
         \o SendsToDropLast(Tail(ordinals), Tail(procs), r)

\* Tpetra::Distributor: what a rank exporting (ordinals, procs) sends to
\* rank r, in export order.
RECURSIVE SendsTo(_, _, _)
SendsTo(ordinals, procs, r) ==
    IF ordinals = <<>> THEN <<>>
    ELSE (IF Head(procs) = r THEN <<Head(ordinals)>> ELSE <<>>)
         \o SendsTo(Tail(ordinals), Tail(procs), r)

\* The orders in which the messages of the ranks in S can arrive.
ArrivalOrders(S) ==
    {o \in [1 .. Cardinality(S) -> S] :
        \A a, b \in 1 .. Cardinality(S) : a # b => o[a] # o[b]}

\* The receive buffer of rank r for one arrival order of the messages net[s][r].
Imported(net, r, order) ==
    Flatten([j \in 1 .. Len(order) |-> net[order[j]][r]])

\* Mutant of UniqueArray: the receive buffer is used as it arrived.
UniqueArrayNoDedup(imported) == imported

\* Mutant of UniqueArray: duplicates are dropped but the arrival order is
\* kept.
RECURSIVE UniqueArrayArrivalOrder(_)
UniqueArrayArrivalOrder(imported) ==
    IF imported = <<>> THEN <<>>
    ELSE LET front == UniqueArrayArrivalOrder(SubSeq(imported, 1, Len(imported) - 1))
             last  == imported[Len(imported)]
         IN  IF last \in Range(front) THEN front ELSE Append(front, last)

\* Mutant of UniqueArray: the set is copied out from its largest member
\* down.
RECURSIVE UniqueArrayDescending(_)
UniqueArrayDescending(imported) ==
    IF imported = <<>> THEN <<>>
    ELSE LET top == SetMax(Range(imported))
         IN  <<top>> \o UniqueArrayDescending(SelectSeq(imported, LAMBDA g : g # top))

\* Insert the received ordinals in a std::set and copy the set to the array.
UniqueArray(imported) == SetToArray(Range(imported))

----------------------------------------------------------------------------
(* Rendezvous::sendMeshToRendezvous, after setupImportCommunication        *)

\* The ranks whose export map holds the ordinal g.
NodeHolders(meshes, g) == {s \in Ranks : g \in Range(meshes[s].nodes)}

ElementHolders(meshes, g) == {s \in Ranks : g \in Range(meshes[s].elements)}

\* When the export map holds an ordinal on several ranks the import takes
\* the data of one of them.
PickHolder(H, low) == IF low THEN SetMin(H) ELSE SetMax(H)

\* Mutant of ImportCoords: the 1-D view is filled node by node
\* (interleaved) instead of dimension by dimension.
ImportCoordsInterleaved(meshes, dim, rendezvous_nodes, low) ==
    LET N == Len(rendezvous_nodes)
    IN  [v \in 1 .. dim * N |->
            LET d == (v - 1) % dim
                g == At(rendezvous_nodes, (v - 1) \div dim)
                H == NodeHolders(meshes, g)
            IN  IF H = {} THEN 0
                ELSE LET src == meshes[PickHolder(H, low)]
                     IN  At(src.coords,
                            d * NumNodesOf(src) + FindIndex(IndexMap(src.nodes), g))]

\* import_coords.doImport( export_coords, node_importer, INSERT ), read back
\* through get1dView(): column d of local row j at d*N + j.  The export
\* multivector of rank s is the view of its coordinates with stride
\* num_nodes of s.
ImportCoords(meshes, dim, rendezvous_nodes, low) ==
    LET N == Len(rendezvous_nodes)
    IN  [v \in 1 .. dim * N |->
            LET d == (v - 1) \div N
                g == At(rendezvous_nodes, (v - 1) % N)
                H == NodeHolders(meshes, g)
            IN  IF H = {} THEN 0
                ELSE LET src == meshes[PickHolder(H, low)]
                     IN  At(src.coords,
                            d * NumNodesOf(src) + FindIndex(IndexMap(src.nodes), g))]

\* import_conn.doImport( export_conn, element_importer, INSERT ).
ImportConn(meshes, nodes_per_element, rendezvous_elements, low) ==
    LET E == Len(rendezvous_elements)
    IN  [v \in 1 .. nodes_per_element * E |->
            LET i == (v - 1) \div E
                g == At(rendezvous_elements, (v - 1) % E)
                H == ElementHolders(meshes, g)
            IN  IF H = {} THEN 0
                ELSE LET src == meshes[PickHolder(H, low)]
                     IN  At(src.connectivity,
                            i * NumElementsOf(src)
                              + FindIndex(IndexMap(src.elements), g))]

\* MeshContainer built from the collected data.
MeshContainer(meshes, r, dim, rendezvous_nodes, rendezvous_elements, low) ==
    [node_dim          |-> dim,
     nodes             |-> rendezvous_nodes,
     coords            |-> ImportCoords(meshes, dim, rendezvous_nodes, low),
     nodes_per_element |-> meshes[r].nodes_per_element,
     elements          |-> rendezvous_elements,
     connectivity      |-> ImportConn(meshes, meshes[r].nodes_per_element,
                                      rendezvous_elements, low)]

NullMesh ==
    [node_dim |-> 0, nodes |-> <<>>, coords |-> <<>>, nodes_per_element |-> 0,
     elements |-> <<>>, connectivity |-> <<>>]

NullRcb == [leaf |-> TRUE, proc |-> Sentinel]

----------------------------------------------------------------------------
(* KDTree over the rendezvous mesh.  An element is the axis-aligned cell   *)
(* spanned by its nodes; the tree keeps one entry [id, lo, hi] per element.*)

ElementNodePoints(m, n) ==
    {NodeCoords(m, m.node_dim,
        FindIndex(IndexMap(m.nodes), ConnectivityAt(m, i, n))) :
     i \in 0 .. m.nodes_per_element - 1}

KDTreeBuild(m) ==
    [n \in 1 .. NumElementsOf(m) |->
        [id |-> At(m.elements, n - 1),
         lo |-> [d \in 1 .. 3 |-> SetMin({q[d] : q \in ElementNodePoints(m, n - 1)})],
         hi |-> [d \in 1 .. 3 |-> SetMax({q[d] : q \in ElementNodePoints(m, n - 1)})]]]

CellContains(lo, hi, p) == \A d \in 1 .. 3 : lo[d] <= p[d] /\ p[d] <= hi[d]

\* KDTree::findPoint: the smallest ordinal among the elements containing p,
\* or the sentinel.
FindPoint(tree, p) ==
    LET hits == {tree[n].id : n \in {k \in 1 .. Len(tree) :
                                       CellContains(tree[k].lo, tree[k].hi, p)}}
    IN  IF hits = {} THEN Sentinel ELSE SetMin(hits)

\* findPoint takes a point of node_dim coordinates; the cells are flat in
\* the axes beyond node_dim.
PadPoint(point) == [d \in 1 .. 3 |-> IF d <= Len(point) THEN point[d] ELSE 0]

----------------------------------------------------------------------------
(* Rendezvous::getRendezvousProcs and Rendezvous::getElements.  A call is  *)
(* recorded as [rank, op, coords, result].                                 *)

\* Mutant of GetRendezvousProcs: the partition number, which counts from
\* one, is pushed back in place of the proc.
GetRendezvousProcsPartNumber(node_dim, rcb, coords) ==
    LET num_points == Len(coords) \div node_dim
    IN  [n \in 1 .. num_points |->
            1 + GetDestinationProc(rcb,
                    [d \in 1 .. 3 |->
                        IF d <= node_dim THEN At(coords, (d - 1) * num_points + n - 1)
                        ELSE 0])]

\* getRendezvousProcs: point[d] = coords[ d*num_points + n ] for d below
\* node_dim and 0.0 above; one destination proc pushed back per point.
GetRendezvousProcs(node_dim, rcb, coords) ==
    LET num_points == Len(coords) \div node_dim
    IN  [n \in 1 .. num_points |->
            GetDestinationProc(rcb,
                [d \in 1 .. 3 |->
                    IF d <= node_dim THEN At(coords, (d - 1) * num_points + n - 1)
                    ELSE 0])]

\* Mutant of GetElements: the coordinates are read interleaved,
\* coords[ n*node_dim + d ].
GetElementsInterleaved(node_dim, kdtree, coords) ==
    LET num_points == Len(coords) \div node_dim
    IN  [n \in 1 .. num_points |->
            FindPoint(kdtree,
                PadPoint([d \in 1 .. node_dim |->
                             At(coords, (n - 1) * node_dim + d - 1)]))]

\* Mutant of GetElements: on a miss element_ordinal keeps the value found
\* for an earlier point of the call (0 when there is none).
GetElementsStaleOrdinal(node_dim, kdtree, coords) ==
    LET num_points == Len(coords) \div node_dim
        found(n) == FindPoint(kdtree,
                       PadPoint([d \in 1 .. node_dim |->
                                    At(coords, (d - 1) * num_points + n - 1)]))
        hits(n)  == {k \in 1 .. n - 1 : found(k) # Sentinel}
    IN  [n \in 1 .. num_points |->
            IF found(n) # Sentinel THEN found(n)
            ELSE IF hits(n) = {} THEN 0 ELSE found(SetMax(hits(n)))]

\* getElements: point[d] = coords[ d*num_points + n ] for d below node_dim;
\* one findPoint result pushed back per point.
GetElements(node_dim, kdtree, coords) ==
    LET num_points == Len(coords) \div node_dim
    IN  [n \in 1 .. num_points |->
            FindPoint(kdtree,
                PadPoint([d \in 1 .. node_dim |->
                             At(coords, (d - 1) * num_points + n - 1)]))]

NoCall == [rank |-> Sentinel, op |-> "none", coords |-> <<>>, result |-> <<>>]

----------------------------------------------------------------------------
(* The source meshes.  A world is a global mesh of two-node elements on    *)
(* three nodes: node k has ordinal 10 + k and element j ordinal 20 + j.    *)
(* Every element is owned by one rank, whose mesh lists the element and    *)
(* the nodes of its elements; rank 0 also lists the nodes no element uses. *)

NodeNums == {1, 2, 3}

ElemNums == {1, 2}

NodeGid(k) == 10 + k

ElemGid(j) == 20 + j

Wrap(k) == ((k - 1) % Cardinality(NodeNums)) + 1

ConnShapes(j) == {<<j, j>>, <<Wrap(j + 1), j>>, <<j, Wrap(j + 2)>>}

WorldPoint(w, k) == <<w.X[k], IF w.dim >= 2 THEN w.Y[k] ELSE 0, 0>>

WorldCell(w, j) ==
    LET pts == {WorldPoint(w, w.conn[j][i]) : i \in 1 .. 2}
    IN  [lo |-> [d \in 1 .. 3 |-> SetMin({q[d] : q \in pts})],
         hi |-> [d \in 1 .. 3 |-> SetMax({q[d] : q \in pts})]]

\* The relative interior of cell A meets the closed cell B.
InteriorMeets(A, B) ==
    \A d \in 1 .. 3 :
        IF A.lo[d] = A.hi[d]
        THEN B.lo[d] <= A.lo[d] /\ A.lo[d] <= B.hi[d]
        ELSE B.lo[d] < A.hi[d] /\ A.lo[d] < B.hi[d]

\* Elements of a mesh meet only in their boundaries.
ValidWorld(w) ==
    /\ w.dim = 1 => \A k \in NodeNums : w.Y[k] = 0
    /\ \A j1, j2 \in ElemNums :
          j1 # j2 => ~InteriorMeets(WorldCell(w, j1), WorldCell(w, j2))

Worlds ==
    {w \in [dim   : {1, 2},
            X     : [NodeNums -> 0 .. MaxCoord],
            Y     : {[k \in NodeNums |-> 0], [k \in NodeNums |-> IF k = 2 THEN 1 ELSE 0]},
            conn  : {c \in [ElemNums -> UNION {ConnShapes(j) : j \in ElemNums}] :
                        \A j \in ElemNums : c[j] \in ConnShapes(j)},
            owner : {o \in [ElemNums -> Ranks] : o[1] = 0}] :
        ValidWorld(w)}

RECURSIVE Descending(_)
Descending(S) ==
    IF S = {} THEN <<>> ELSE <<SetMax(S)>> \o Descending(S \ {SetMax(S)})

SourceMesh(w, s) ==
    LET owned   == {j \in ElemNums : w.owner[j] = s}
        usedBy(J) == UNION {{w.conn[j][1], w.conn[j][2]} : j \in J}
        orphans == NodeNums \ usedBy(ElemNums)
        nodeNums == Descending(usedBy(owned) \cup (IF s = 0 THEN orphans ELSE {}))
        elemNums == Descending(owned)
        N == Len(nodeNums)
        E == Len(elemNums)
    IN  [node_dim          |-> w.dim,
         nodes             |-> [n \in 1 .. N |-> NodeGid(nodeNums[n])],
         coords            |-> [v \in 1 .. w.dim * N |->
                                   WorldPoint(w, nodeNums[((v - 1) % N) + 1])[((v - 1) \div N) + 1]],
         nodes_per_element |-> 2,
         elements          |-> [n \in 1 .. E |-> ElemGid(elemNums[n])],
         connectivity      |-> [v \in 1 .. 2 * E |->
                                   NodeGid(w.conn[elemNums[((v - 1) % E) + 1]][((v - 1) \div E) + 1])]]

\* An ordinal no node list holds.
UnknownNode == NodeGid(0)

\* The mesh m with slot i of its local element n naming an unknown node.
UnknownNodeMesh(m, n, i) ==
    [m EXCEPT !.connectivity =
        [v \in 1 .. Len(m.connectivity) |->
            IF v = i * NumElementsOf(m) + n + 1 THEN UnknownNode
            ELSE m.connectivity[v]]]

\* The mesh m declaring dimension zero: no coordinates at all.
ZeroDimMesh(m) == [m EXCEPT !.node_dim = 0, !.coords = <<>>]

\* The source meshes of world w with one input error: a connectivity slot
\* of one rank names an unknown node, or every rank declares dimension 0.
FaultyMeshes(w) ==
    {[s \in Ranks |-> IF s = c THEN UnknownNodeMesh(SourceMesh(w, s), 0, i)
                      ELSE SourceMesh(w, s)] :
        c \in {t \in Ranks : \E j \in ElemNums : w.owner[j] = t}, i \in {0, 1}}
    \cup {[s \in Ranks |-> ZeroDimMesh(SourceMesh(w, s))]}

GlobalBox == [lo |-> <<0, 0, 0>>, hi |-> <<MaxCoord - 1, 1, 0>>]

----------------------------------------------------------------------------
(* Details::PriorityQueue with the comparator Less: a binary max-heap in   *)
(* the array _heap, of which the slots 0 .. _size - 1 are in use.  The     *)
(* bodies of the operations return the array, the size and the set of the  *)
(* slot indices they have read or written.                                 *)

\* Capacity of the heap array: 256 in the source, smaller here.
_max_size == 6
\* The elements are drawn from 0 .. MaxValue.
MaxValue == 2

Values == 0 .. MaxValue

Slots == 0 .. _max_size - 1

\* Less<T>::operator()
Less(x, y) == x < y

\* _heap[i] as a read and as a write; an index outside the array is
\* recorded by the caller and the array is left as it is.
HeapGet(heap, i) == IF i \in DOMAIN heap THEN heap[i] ELSE 0

HeapSet(heap, i, v) == IF i \in DOMAIN heap THEN [heap EXCEPT ![i] = v] ELSE heap

\* Mutant of UpHeap: the element climbs one level at most.
UpHeapOneLevel(heap, pos, elem, touched) ==
    IF pos > 0
    THEN LET parent == (pos - 1) \div 2
         IN  IF ~Less(HeapGet(heap, parent), elem)
             THEN [heap |-> heap, pos |-> pos, touched |-> touched \cup {parent}]
             ELSE [heap    |-> HeapSet(heap, pos, HeapGet(heap, parent)),
                   pos     |-> parent,
                   touched |-> touched \cup {parent, pos}]
    ELSE [heap |-> heap, pos |-> pos, touched |-> touched]

\* The up-heap loop of push: elem climbs from pos while its parent is less.
RECURSIVE UpHeap(_, _, _, _)
UpHeap(heap, pos, elem, touched) ==
    IF pos > 0
    THEN LET parent == (pos - 1) \div 2
         IN  IF ~Less(HeapGet(heap, parent), elem)
             THEN [heap |-> heap, pos |-> pos, touched |-> touched \cup {parent}]
             ELSE UpHeap(HeapSet(heap, pos, HeapGet(heap, parent)), parent, elem,
                         touched \cup {parent, pos})
    ELSE [heap |-> heap, pos |-> pos, touched |-> touched]

\* push after its assertion.
PushBody(heap, size, elem) ==
    LET up == UpHeap(heap, size, elem, {})
    IN  [heap    |-> HeapSet(up.heap, up.pos, elem),
         size    |-> size + 1,
         touched |-> up.touched \cup {up.pos}]

\* One turn of the loop over the children in pop: child replaces next_pos
\* when it is in use, is not the last slot and holds more.
PickChild(heap, size, next_pos, child) ==
    IF child < size - 1 /\ Less(HeapGet(heap, next_pos), HeapGet(heap, child))
    THEN child ELSE next_pos

PickTouched(size, next_pos, child) ==
    IF child < size - 1 THEN {next_pos, child} ELSE {}

\* The down-heap loop of pop: the hole at pos sinks while a child holds
\* more than the last element.
RECURSIVE DownHeap(_, _, _, _)
DownHeap(heap, size, pos, touched) ==
    LET left_child  == 2 * pos + 1
        right_child == 2 * pos + 2
        after_left  == PickChild(heap, size, size - 1, left_child)
        next_pos    == PickChild(heap, size, after_left, right_child)
        seen        == touched \cup PickTouched(size, size - 1, left_child)
                               \cup PickTouched(size, after_left, right_child)
    IN  IF next_pos = size - 1
        THEN [heap |-> heap, pos |-> pos, touched |-> seen]
        ELSE DownHeap(HeapSet(heap, pos, HeapGet(heap, next_pos)), size, next_pos,
                      seen \cup {pos, next_pos})

\* Mutant of PopBody: the last element is not written into the hole.
PopBodyHoleLeft(heap, size) ==
    LET down == DownHeap(heap, size, 0, {})
    IN  [heap |-> down.heap, size |-> size - 1, touched |-> down.touched]

\* pop after its assertion.
PopBody(heap, size) ==
    LET down == DownHeap(heap, size, 0, {})
    IN  [heap    |-> HeapSet(down.heap, down.pos, HeapGet(down.heap, size - 1)),
         size    |-> size - 1,
         touched |-> down.touched \cup {down.pos, size - 1}]

\* pop_push after its assertion: the new element is put in the slot after
\* the last and pop is called on the longer heap, whose own assertion
\* passes whenever the size was not negative.
PopPushBody(heap, size, elem) ==
    LET popped == PopBody(HeapSet(heap, size, elem), size + 1)
    IN  [heap    |-> popped.heap,
         size    |-> popped.size,
         touched |-> popped.touched \cup {size}]

----------------------------------------------------------------------------
(* DistributedSearchTree as its unit tests drive it: the boxes each rank   *)
(* gives the tree, the queries each rank asks, and the indices, offsets    *)
(* and ranks the tests require of query.  The tests run on any number of   *)
(* ranks, comm_size, from 1 to NumRanks.  Coordinates are counted in       *)
(* quarters, the finest step the tests use.                                *)

\* The number of boxes a rank gives the tree in hello_world.
hello_world_n == 4

Tests ==
    {"hello_world", "empty_tree", "unique_leaf_on_rank_0", "one_leaf_per_rank",
     "non_approximate_nearest_neighbors"}

CommSizes == 1 .. NumRanks

PointBox(point) == [lo |-> point, hi |-> point]

\* A default-constructed box, which holds no point.
DefaultBox == [lo |-> <<1, 1, 1>>, hi |-> <<0, 0, 0>>]

OverlapQuery(box) == [box |-> box, radius |-> 0, k |-> 0]

WithinQuery(centre, radius) == [box |-> PointBox(centre), radius |-> radius, k |-> 0]

NearestQuery(point, k) == [box |-> PointBox(point), radius |-> 0, k |-> k]

\* One call of query with what the test requires of its three arrays.
Check(kind, queries, indices, offset, ranks) ==
    [kind |-> kind, queries |-> queries, indices |-> indices,
     offset |-> offset, ranks |-> ranks]

\* A call with no query: no index, the offset {0}, no rank.
NoQueries(kind) == Check(kind, <<>>, <<>>, <<0>>, <<>>)

\* hello_world: rank r holds the points r, r + 1/4, r + 2/4, r + 3/4 of the
\* x axis.
HelloWorldBoxes(comm_rank) ==
    [i \in 1 .. hello_world_n |->
        PointBox(<<(4 * (i - 1)) \div hello_world_n + 4 * comm_rank, 0, 0>>)]

\* Mutant of HelloWorldWithin: the first point of the next rank, which lies
\* on the sphere, is left out of the indices and the ranks
\* but counted in the offset.
HelloWorldWithinOpenBall(comm_size, comm_rank) ==
    Check("within",
          <<WithinQuery(<<2 + 4 * (comm_size - 1 - comm_rank), 0, 0>>, 2)>>,
          [i \in 1 .. hello_world_n |-> hello_world_n - 1 - (i - 1)],
          <<0, IF comm_rank > 0 THEN hello_world_n + 1 ELSE hello_world_n>>,
          [i \in 1 .. hello_world_n |-> comm_size - 1 - comm_rank])

\* The within query of hello_world: the ball of radius 1/2 around the middle
\* of the points of rank comm_size - 1 - comm_rank.
HelloWorldWithin(comm_size, comm_rank) ==
    LET found == IF comm_rank > 0 THEN hello_world_n + 1 ELSE hello_world_n
    IN  Check("within",
              <<WithinQuery(<<2 + 4 * (comm_size - 1 - comm_rank), 0, 0>>, 2)>>,
              [i \in 1 .. found |->
                  IF i <= hello_world_n THEN hello_world_n - 1 - (i - 1) ELSE 0],
              <<0, found>>,
              [i \in 1 .. found |->
                  IF i <= hello_world_n THEN comm_size - 1 - comm_rank
                  ELSE comm_size - comm_rank])

\* The nearest query of hello_world: three neighbours (two on the last rank)
\* of the first point of rank comm_size - 1 - comm_rank.
HelloWorldNearest(comm_size, comm_rank) ==
    LET point == <<4 * (comm_size - 1 - comm_rank), 0, 0>>
    IN  IF comm_rank < comm_size - 1
        THEN Check("nearest", <<NearestQuery(point, 3)>>,
                   <<0, hello_world_n - 1, 1>>, <<0, 3>>,
                   <<comm_size - 1 - comm_rank, comm_size - 2 - comm_rank,
                     comm_size - 1 - comm_rank>>)
        ELSE Check("nearest", <<NearestQuery(point, 2)>>,
                   <<0, 1>>, <<0, 2>>,
                   <<comm_size - 1 - comm_rank, comm_size - 1 - comm_rank>>)

HelloWorldChecks(comm_size, comm_rank) ==
    <<HelloWorldWithin(comm_size, comm_rank),
      HelloWorldNearest(comm_size, comm_rank)>>

\* empty_tree: no rank gives the tree a box; the ranks ask different
\* numbers of queries.
EmptyTreeChecks(comm_size, comm_rank) ==
    <<NoQueries("overlap"),
      NoQueries("within"),
      NoQueries("nearest"),
      NoQueries("nearest"),
      IF comm_rank = 0
      THEN Check("overlap", <<OverlapQuery(DefaultBox), OverlapQuery(DefaultBox)>>,
                 <<>>, <<0, 0, 0>>, <<>>)
      ELSE NoQueries("overlap"),
      IF comm_rank = 0
      THEN NoQueries("within")
      ELSE Check("within", <<WithinQuery(<<4 * comm_rank, 0, 0>>, 4 * comm_size)>>,
                 <<>>, <<0, 0>>, <<>>),
      IF comm_rank = 0
      THEN NoQueries("nearest")
      ELSE Check("nearest", <<NearestQuery(<<0, 0, 0>>, comm_rank)>>,
                 <<>>, <<0, 0>>, <<>>),
      Check("nearest", <<NearestQuery(<<0, 0, 0>>, comm_size)>>,
            <<>>, <<0, 0>>, <<>>)>>

\* unique_leaf_on_rank_0: the unit cube on rank 0, nothing elsewhere.
UniqueLeafBoxes(comm_rank) ==
    IF comm_rank = 0 THEN <<[lo |-> <<0, 0, 0>>, hi |-> <<4, 4, 4>>]>> ELSE <<>>

\* Every rank asks for comm_size neighbours of its point of the diagonal.
UniqueLeafChecks(comm_size, comm_rank) ==
    <<NoQueries("overlap"),
      NoQueries("within"),
      NoQueries("nearest"),
      NoQueries("nearest"),
      Check("nearest",
            <<NearestQuery(<<4 * comm_rank, 4 * comm_rank, 4 * comm_rank>>,
                           comm_size)>>,
            <<0>>, <<0, 1>>, <<0>>)>>

\* one_leaf_per_rank: rank r holds the unit cube that starts at x = r.
OneLeafPerRankBoxes(comm_rank) ==
    <<[lo |-> <<4 * comm_rank, 0, 0>>, hi |-> <<4 * comm_rank + 4, 4, 4>>]>>

\* Mutant of OneLeafPerRankNearest: a rank that asks for more neighbours
\* than there are leaves is given the leaves of the ranks below it only.
OneLeafPerRankNearestBelow(comm_size, comm_rank) ==
    IF comm_rank > 0
    THEN Check("nearest", <<NearestQuery(<<0, 0, 0>>, comm_rank * comm_size)>>,
               [i \in 1 .. comm_rank |-> 0], <<0, comm_rank>>,
               [i \in 1 .. comm_rank |-> i - 1])
    ELSE Check("nearest", <<NearestQuery(<<0, 0, 0>>, comm_rank * comm_size)>>,
               <<>>, <<0, 0>>, <<>>)

\* Rank r asks for r * comm_size neighbours of the origin.
OneLeafPerRankNearest(comm_size, comm_rank) ==
    IF comm_rank > 0
    THEN Check("nearest", <<NearestQuery(<<0, 0, 0>>, comm_rank * comm_size)>>,
               [i \in 1 .. comm_size |-> 0], <<0, comm_size>>,
               [i \in 1 .. comm_size |-> i - 1])
    ELSE Check("nearest", <<NearestQuery(<<0, 0, 0>>, comm_rank * comm_size)>>,
               <<>>, <<0, 0>>, <<>>)

OneLeafPerRankChecks(comm_size, comm_rank) ==
    <<Check("overlap",
            <<OverlapQuery(PointBox(<<4 * comm_size - 4 * comm_rank - 2, 2, 2>>)),
              OverlapQuery(PointBox(<<4 * comm_rank + 2, 2, 2>>))>>,
            <<0, 0>>, <<0, 1, 2>>, <<comm_size - 1 - comm_rank, comm_rank>>),
      NoQueries("nearest"),
      NoQueries("overlap"),
      OneLeafPerRankNearest(comm_size, comm_rank)>>

\* non_approximate_nearest_neighbors: rank r holds the points (r, 0, 0) and
\* (r + 1, 1, 1).
NonApproximateBoxes(comm_rank) ==
    <<PointBox(<<4 * comm_rank, 0, 0>>),
      PointBox(<<4 * comm_rank + 4, 4, 4>>)>>

\* Every rank asks for the neighbour of the point three quarters of the way
\* from the first point of rank comm_size - 1 - comm_rank to the next.
NonApproximateChecks(comm_size, comm_rank) ==
    <<Check("nearest",
            <<NearestQuery(<<4 * (comm_size - 1 - comm_rank) + 3, 0, 0>>, 1)>>,
            <<0>>, <<0, 1>>,
            <<IF comm_rank > 0 THEN comm_size - comm_rank ELSE comm_size - 1>>)>>

\* The boxes rank comm_rank gives the tree of a test.
Boxes(test, comm_rank) ==
    CASE test = "hello_world" -> HelloWorldBoxes(comm_rank)
      [] test = "empty_tree" -> <<>>
      [] test = "unique_leaf_on_rank_0" -> UniqueLeafBoxes(comm_rank)
      [] test = "one_leaf_per_rank" -> OneLeafPerRankBoxes(comm_rank)
      [] test = "non_approximate_nearest_neighbors" ->
            NonApproximateBoxes(comm_rank)

\* The calls of query a rank makes in a test, in their order.
Checks(test, comm_size, comm_rank) ==
    CASE test = "hello_world" -> HelloWorldChecks(comm_size, comm_rank)
      [] test = "empty_tree" -> EmptyTreeChecks(comm_size, comm_rank)
      [] test = "unique_leaf_on_rank_0" -> UniqueLeafChecks(comm_size, comm_rank)
      [] test = "one_leaf_per_rank" -> OneLeafPerRankChecks(comm_size, comm_rank)
      [] test = "non_approximate_nearest_neighbors" ->
            NonApproximateChecks(comm_size, comm_rank)

\* What the test requires of size() and empty(); hello_world asks neither.
SizeAsked(test) == test # "hello_world"

Size(test, comm_size) ==
    CASE test = "hello_world" -> 0
      [] test = "empty_tree" -> 0
      [] test = "unique_leaf_on_rank_0" -> 1
      [] test = "one_leaf_per_rank" -> comm_size
      [] test = "non_approximate_nearest_neighbors" -> 2 * comm_size

Empty(test) == test = "empty_tree"

\* The tree of a test on comm_size ranks.
Tree(test, comm_size) ==
    [test      |-> test,
     comm_size |-> comm_size,
     boxes     |-> [r \in Ranks |-> IF r < comm_size THEN Boxes(test, r) ELSE <<>>],
     sized     |-> SizeAsked(test),
     size      |-> Size(test, comm_size),
     empty     |-> Empty(test)]

NoTree ==
    [test |-> "none", comm_size |-> 0, boxes |-> [r \in Ranks |-> <<>>],
     sized |-> FALSE, size |-> 0, empty |-> TRUE]

NoResult == Check("none", <<>>, <<>>, <<0>>, <<>>)

----------------------------------------------------------------------------
VARIABLES
    world,                \* the global mesh the source meshes are cut from
    mesh,                 \* mesh[r]: the source mesh of rank r
    d_global_box,
    pc,                   \* pc[r]: where rank r is in build
    d_node_dim,
    nodes_in_box, elements_in_box,
    d_rcb,
    export_elements, export_element_procs,
    net_elements,         \* net_elements[s][r]: element ordinals s sends to r
    net_nodes,            \* net_nodes[s][r]: node ordinals s sends to r
    num_import_elements, num_import_nodes,
    rendezvous_elements, rendezvous_nodes,
    d_rendezvous_mesh,
    d_kdtree,
    last_call,            \* the query whose result the caller is looking at
    kept_call,            \* an earlier query, kept to compare a repetition with
    _heap, _size,         \* the PriorityQueue
    pq_last,              \* the last operation on the queue and the queue before it
    dst_tree,             \* the DistributedSearchTree a test has made
    dst_pc,               \* dst_pc[r]: the calls of query rank r has made
    dst_out               \* dst_out[r]: the last call of rank r and its arrays

rendezvous_vars ==
    <<world, mesh, d_global_box, pc, d_node_dim, nodes_in_box, elements_in_box,
      d_rcb, export_elements, export_element_procs, net_elements, net_nodes,
      num_import_elements, num_import_nodes, rendezvous_elements,
      rendezvous_nodes, d_rendezvous_mesh, d_kdtree, last_call, kept_call>>

queue_vars == <<_heap, _size, pq_last>>

tree_vars == <<dst_tree, dst_pc, dst_out>>

search_vars == <<queue_vars, tree_vars>>

vars == <<rendezvous_vars, search_vars>>

NoMessages == [s \in Ranks |-> [r \in Ranks |-> <<>>]]

NoKept == [call |-> NoCall, others |-> FALSE]

\* The state the constructor leaves on every rank.
Constructed ==
    /\ d_global_box = GlobalBox
    /\ pc = [r \in Ranks |-> "start"]
    /\ d_node_dim = [r \in Ranks |-> 0]
    /\ nodes_in_box = [r \in Ranks |-> <<>>]
    /\ elements_in_box = [r \in Ranks |-> <<>>]
    /\ d_rcb = [r \in Ranks |-> NullRcb]
    /\ export_elements = [r \in Ranks |-> <<>>]
    /\ export_element_procs = [r \in Ranks |-> <<>>]
    /\ net_elements = NoMessages
    /\ net_nodes = NoMessages
    /\ num_import_elements = [r \in Ranks |-> 0]
    /\ num_import_nodes = [r \in Ranks |-> 0]
    /\ rendezvous_elements = [r \in Ranks |-> <<>>]
    /\ rendezvous_nodes = [r \in Ranks |-> <<>>]
    /\ d_rendezvous_mesh = [r \in Ranks |-> NullMesh]
    /\ d_kdtree = [r \in Ranks |-> <<>>]
    /\ last_call = NoCall
    /\ kept_call = NoKept

\* A queue nobody uses: empty, its array zeroed.
NoOperation(heap) ==
    [op |-> "none", arg |-> 0, heap |-> heap, size |-> 0, passed |-> TRUE,
     touched |-> {}]

QueueIdle ==
    /\ _heap = [i \in Slots |-> 0]
    /\ _size = 0
    /\ pq_last = NoOperation(_heap)

\* No tree has been made.
TreeIdle ==
    /\ dst_tree = NoTree
    /\ dst_pc = [r \in Ranks |-> 0]
    /\ dst_out = [r \in Ranks |-> NoResult]

SearchIdle == QueueIdle /\ TreeIdle

Init ==
    /\ world \in Worlds
    /\ mesh = [s \in Ranks |-> SourceMesh(world, s)]
    /\ Constructed
    /\ SearchIdle

\* The ranks are given meshes with one input error.
FaultInit ==
    /\ world \in Worlds
    /\ mesh \in FaultyMeshes(world)
    /\ Constructed
    /\ SearchIdle

----------------------------------------------------------------------------
(* Rendezvous::build, one action per stretch of code between two points    *)
(* where a rank waits for the others.                                      *)

\* The point cloud handed to RCB: the flagged nodes of every rank.
Cloud ==
    UNION {{<<s, n, NodeCoords(mesh[s], d_node_dim[s], n)>> :
              n \in {k \in 0 .. NumNodesOf(mesh[s]) - 1 : At(nodes_in_box[s], k) # 0}} :
           s \in Ranks}

Posted(s, stages) == pc[s] \in stages

\* build up to d_rcb->partition(): the node dimension, getMeshInBox and the
\* construction of the partitioner.
BuildBegin(r) ==
    /\ pc[r] = "start"
    /\ LookupsDefined(mesh[r])
    /\ LET dim == mesh[r].node_dim
           box == GetMeshInBox(mesh[r], d_global_box, dim)
       IN  /\ d_node_dim' = [d_node_dim EXCEPT ![r] = dim]
           /\ nodes_in_box' = [nodes_in_box EXCEPT ![r] = box.nodes_in_box]
           /\ elements_in_box' = [elements_in_box EXCEPT ![r] = box.elements_in_box]
    /\ pc' = [pc EXCEPT ![r] = "partition"]
    /\ UNCHANGED <<last_call, kept_call>>
    /\ UNCHANGED search_vars
    /\ UNCHANGED <<world, mesh, d_global_box, d_rcb, export_elements,
                   export_element_procs, net_elements, net_nodes,
                   num_import_elements, num_import_nodes, rendezvous_elements,
                   rendezvous_nodes, d_rendezvous_mesh, d_kdtree>>

\* d_rcb->partition(): collective; every rank gets the same tree.
Partition ==
    /\ \A r \in Ranks : pc[r] = "partition"
    /\ Cloud # {}
    /\ d_rcb' = [r \in Ranks |-> RcbBisect(Cloud, 0, NumRanks - 1, 1, 0)]
    /\ pc' = [r \in Ranks |-> "export_elements"]
    /\ UNCHANGED <<last_call, kept_call>>
    /\ UNCHANGED search_vars
    /\ UNCHANGED <<world, mesh, d_global_box, d_node_dim, nodes_in_box,
                   elements_in_box, export_elements, export_element_procs,
                   net_elements, net_nodes, num_import_elements,
                   num_import_nodes, rendezvous_elements, rendezvous_nodes,
                   d_rendezvous_mesh, d_kdtree>>

\* PartitionError: no active point on any rank.
PartitionFails ==
    /\ \A r \in Ranks : pc[r] = "partition"
    /\ Cloud = {}
    /\ pc' = [r \in Ranks |-> "failed"]
    /\ UNCHANGED <<last_call, kept_call>>
    /\ UNCHANGED search_vars
    /\ UNCHANGED <<world, mesh, d_global_box, d_node_dim, nodes_in_box,
                   elements_in_box, d_rcb, export_elements, export_element_procs,
                   net_elements, net_nodes, num_import_elements,
                   num_import_nodes, rendezvous_elements, rendezvous_nodes,
                   d_rendezvous_mesh, d_kdtree>>

\* setupImportCommunication up to the element distributor: the destination
\* sets, their unrolling, and the posting of the element sends.  The locals
\* are bound by \E over a singleton, which computes each of them once.
ExportElements(r) ==
    /\ pc[r] = "export_elements"
    /\ \E sets \in {ExportElementProcsSet(mesh[r], d_node_dim[r],
                                           elements_in_box[r], d_rcb[r])} :
       \E ordinals \in {UnrollOrdinals(mesh[r].elements, sets)} :
       \E procs \in {UnrollProcs(sets)} :
           /\ export_elements' = [export_elements EXCEPT ![r] = ordinals]
           /\ export_element_procs' = [export_element_procs EXCEPT ![r] = procs]
           /\ net_elements' = [net_elements EXCEPT
                                 ![r] = [q \in Ranks |-> SendsTo(ordinals, procs, q)]]
    /\ pc' = [pc EXCEPT ![r] = "import_elements"]
    /\ UNCHANGED <<last_call, kept_call>>
    /\ UNCHANGED search_vars
    /\ UNCHANGED <<world, mesh, d_global_box, d_node_dim, nodes_in_box,
                   elements_in_box, d_rcb, net_nodes, num_import_elements,
                   num_import_nodes, rendezvous_elements, rendezvous_nodes,
                   d_rendezvous_mesh, d_kdtree>>

\* The element exchange completes on rank r (every rank has entered it);
\* the received ordinals are made unique, the node destinations are derived
\* from the exported elements and the node sends are posted.
ImportElements(r) ==
    /\ pc[r] = "import_elements"
    /\ \A s \in Ranks :
          Posted(s, {"import_elements", "import_nodes", "import_mesh",
                     "build_kdtree", "done"})
    /\ \E order \in ArrivalOrders({s \in Ranks : net_elements[s][r] # <<>>}) :
       \E imported \in {Imported(net_elements, r, order)} :
       \E sets \in {ExportNodeProcsSet(mesh[r], export_elements[r],
                                        export_element_procs[r])} :
       \E ordinals \in {UnrollOrdinals(mesh[r].nodes, sets)} :
       \E procs \in {UnrollProcs(sets)} :
              /\ num_import_elements' = [num_import_elements EXCEPT ![r] = Len(imported)]
              /\ rendezvous_elements' = [rendezvous_elements EXCEPT
                                           ![r] = UniqueArray(imported)]
              /\ net_nodes' = [net_nodes EXCEPT
                                 ![r] = [q \in Ranks |-> SendsTo(ordinals, procs, q)]]
    /\ export_elements' = [export_elements EXCEPT ![r] = <<>>]
    /\ export_element_procs' = [export_element_procs EXCEPT ![r] = <<>>]
    /\ pc' = [pc EXCEPT ![r] = "import_nodes"]
    /\ UNCHANGED <<last_call, kept_call>>
    /\ UNCHANGED search_vars
    /\ UNCHANGED <<world, mesh, d_global_box, d_node_dim, nodes_in_box,
                   elements_in_box, d_rcb, net_elements, num_import_nodes,
                   rendezvous_nodes, d_rendezvous_mesh, d_kdtree>>

\* Mutant of ImportNodes: the node sends are posted but not waited for;
\* the rank goes on with what has arrived.
ImportNodesNoWait(r) ==
    /\ pc[r] = "import_nodes"
    /\ \E order \in ArrivalOrders({s \in Ranks : net_nodes[s][r] # <<>>}) :
          LET imported == Imported(net_nodes, r, order)
          IN  /\ num_import_nodes' = [num_import_nodes EXCEPT ![r] = Len(imported)]
              /\ rendezvous_nodes' = [rendezvous_nodes EXCEPT
                                        ![r] = UniqueArray(imported)]
    /\ pc' = [pc EXCEPT ![r] = "import_mesh"]
    /\ UNCHANGED <<last_call, kept_call>>
    /\ UNCHANGED search_vars
    /\ UNCHANGED <<world, mesh, d_global_box, d_node_dim, nodes_in_box,
                   elements_in_box, d_rcb, export_elements, export_element_procs,
                   net_elements, net_nodes, num_import_elements,
                   rendezvous_elements, d_rendezvous_mesh, d_kdtree>>

\* The node exchange completes on rank r; the received ordinals are made
\* unique.
ImportNodes(r) ==
    /\ pc[r] = "import_nodes"
    /\ \A s \in Ranks :
          Posted(s, {"import_nodes", "import_mesh", "build_kdtree", "done"})
    /\ \E order \in ArrivalOrders({s \in Ranks : net_nodes[s][r] # <<>>}) :
          LET imported == Imported(net_nodes, r, order)
          IN  /\ num_import_nodes' = [num_import_nodes EXCEPT ![r] = Len(imported)]
              /\ rendezvous_nodes' = [rendezvous_nodes EXCEPT
                                        ![r] = UniqueArray(imported)]
    /\ pc' = [pc EXCEPT ![r] = "import_mesh"]
    /\ UNCHANGED <<last_call, kept_call>>
    /\ UNCHANGED search_vars
    /\ UNCHANGED <<world, mesh, d_global_box, d_node_dim, nodes_in_box,
                   elements_in_box, d_rcb, export_elements, export_element_procs,
                   net_elements, net_nodes, num_import_elements,
                   rendezvous_elements, d_rendezvous_mesh, d_kdtree>>

\* sendMeshToRendezvous after setupImportCommunication: the Tpetra maps and
\* importers (collective), the import of coordinates and connectivity and
\* the rendezvous mesh; then build clears the in-box flags.
ImportMesh(r) ==
    /\ pc[r] = "import_mesh"
    /\ \A s \in Ranks : Posted(s, {"import_mesh", "build_kdtree", "done"})
    /\ \E low \in BOOLEAN :
          d_rendezvous_mesh' = [d_rendezvous_mesh EXCEPT
              ![r] = MeshContainer(mesh, r, d_node_dim[r], rendezvous_nodes[r],
                                   rendezvous_elements[r], low)]
    /\ nodes_in_box' = [nodes_in_box EXCEPT ![r] = <<>>]
    /\ elements_in_box' = [elements_in_box EXCEPT ![r] = <<>>]
    /\ pc' = [pc EXCEPT ![r] = "build_kdtree"]
    /\ UNCHANGED <<last_call, kept_call>>
    /\ UNCHANGED search_vars
    /\ UNCHANGED <<world, mesh, d_global_box, d_node_dim, d_rcb, export_elements,
                   export_element_procs, net_elements, net_nodes,
                   num_import_elements, num_import_nodes, rendezvous_elements,
                   rendezvous_nodes, d_kdtree>>

\* d_kdtree->build() on the rendezvous mesh; build returns.
BuildKDTree(r) ==
    /\ pc[r] = "build_kdtree"
    /\ d_kdtree' = [d_kdtree EXCEPT ![r] = KDTreeBuild(d_rendezvous_mesh[r])]
    /\ pc' = [pc EXCEPT ![r] = "done"]
    /\ UNCHANGED <<last_call, kept_call>>
    /\ UNCHANGED search_vars
    /\ UNCHANGED <<world, mesh, d_global_box, d_node_dim, nodes_in_box,
                   elements_in_box, d_rcb, export_elements, export_element_procs,
                   net_elements, net_nodes, num_import_elements,
                   num_import_nodes, rendezvous_elements, rendezvous_nodes,
                   d_rendezvous_mesh>>

----------------------------------------------------------------------------
(* Build on a mesh whose lookups are not defined.                          *)

\* getMeshInBox on a connectivity slot naming an unknown node: find()
\* returns end() and the flag is read through end()->second.  The access
\* faults and the rank is lost (g is the sentinel), or it lands on the slot
\* g of an unrelated node, or on memory that reads as zero.
BuildBeginUndefined(r) ==
    /\ pc[r] = "start"
    /\ ~LookupsDefined(mesh[r])
    /\ d_node_dim' = [d_node_dim EXCEPT ![r] = mesh[r].node_dim]
    /\ \E g \in {Sentinel} \cup (0 .. NumNodesOf(mesh[r])) :
          IF g = Sentinel
          THEN /\ pc' = [pc EXCEPT ![r] = "crashed"]
               /\ UNCHANGED <<nodes_in_box, elements_in_box>>
          ELSE LET seen == IF g < NumNodesOf(mesh[r]) THEN ReadAsSlot(mesh[r], g)
                           ELSE mesh[r]
                   box  == GetMeshInBox(seen, d_global_box, mesh[r].node_dim)
               IN  /\ nodes_in_box' = [nodes_in_box EXCEPT ![r] = box.nodes_in_box]
                   /\ elements_in_box' = [elements_in_box EXCEPT
                                            ![r] = box.elements_in_box]
                   /\ pc' = [pc EXCEPT ![r] = "partition"]
    /\ UNCHANGED <<last_call, kept_call>>
    /\ UNCHANGED search_vars
    /\ UNCHANGED <<world, mesh, d_global_box, d_rcb, export_elements,
                   export_element_procs, net_elements, net_nodes,
                   num_import_elements, num_import_nodes, rendezvous_elements,
                   rendezvous_nodes, d_rendezvous_mesh, d_kdtree>>

\* An element in the box has a slot naming an unknown node.
ReachesUnknownNode(r) ==
    \E n \in 0 .. NumElementsOf(mesh[r]) - 1, i \in 0 .. mesh[r].nodes_per_element - 1 :
        /\ At(elements_in_box[r], n) # 0
        /\ ConnectivityAt(mesh[r], i, n) \notin Range(mesh[r].nodes)

\* setupImportCommunication reads the coordinates of an unknown node
\* through end()->second and the access faults; when it does not, the rank
\* goes on as ExportElements with what the memory holds.
ExportElementsUndefined(r) ==
    /\ pc[r] = "export_elements"
    /\ ReachesUnknownNode(r)
    /\ pc' = [pc EXCEPT ![r] = "crashed"]
    /\ UNCHANGED <<last_call, kept_call>>
    /\ UNCHANGED search_vars
    /\ UNCHANGED <<world, mesh, d_global_box, d_node_dim, nodes_in_box,
                   elements_in_box, d_rcb, export_elements, export_element_procs,
                   net_elements, net_nodes, num_import_elements,
                   num_import_nodes, rendezvous_elements, rendezvous_nodes,
                   d_rendezvous_mesh, d_kdtree>>

----------------------------------------------------------------------------
(* Queries on a rank whose build has returned.  The caller looks at one    *)
(* result at a time: last_call holds it until the caller is done with it.  *)

\* The points queries are made with: the grid points of the dimension.
QueryGrid(dim) ==
    IF dim = 1 THEN {<<x>> : x \in 0 .. MaxCoord}
    ELSE {<<x, y>> : x \in 0 .. MaxCoord, y \in {0, 1}}

Mirror(p) == [d \in 1 .. Len(p) |-> IF d = 1 THEN MaxCoord - p[1] ELSE 1 - p[d]]

\* The batches of points a caller passes: one point, or a point of the
\* lower half of the grid and its mirror image.
QueryBatches(dim) ==
    {<<p>> : p \in QueryGrid(dim)}
        \cup {<<p, Mirror(p)>> : p \in {q \in QueryGrid(dim) : 2 * q[1] < MaxCoord}}

\* The caller's array: axis k of point n at k*N + n.
Blocked(batch, dim) ==
    [v \in 1 .. dim * Len(batch) |->
        batch[((v - 1) % Len(batch)) + 1][((v - 1) \div Len(batch)) + 1]]

CallGetRendezvousProcs(r, coords) ==
    GetRendezvousProcs(d_node_dim[r], d_rcb[r], coords)

\* Mutant of CallGetElements: the result array is not cleared on entry and
\* still holds the result of the getElements call of the rank that was
\* kept.
CallGetElementsAppending(r, coords) ==
    (IF kept_call.call.rank = r /\ kept_call.call.op = "getElements"
     THEN kept_call.call.result ELSE <<>>)
        \o GetElements(d_node_dim[r], d_kdtree[r], coords)

CallGetElements(r, coords) ==
    GetElements(d_node_dim[r], d_kdtree[r], coords)

\* The kept call, marked once another query is made on its rank.
KeptAfter(call) ==
    IF /\ kept_call.call # NoCall
       /\ kept_call.call.rank = call.rank
       /\ kept_call.call.op # call.op \/ kept_call.call.coords # call.coords
    THEN [kept_call EXCEPT !.others = TRUE]
    ELSE kept_call

QueryProcs(r) ==
    /\ pc[r] = "done"
    /\ last_call = NoCall
    /\ \E batch \in QueryBatches(d_node_dim[r]) :
          LET coords == Blocked(batch, d_node_dim[r])
              call   == [rank |-> r, op |-> "getRendezvousProcs", coords |-> coords,
                         result |-> CallGetRendezvousProcs(r, coords)]
          IN  /\ last_call' = call
              /\ kept_call' = KeptAfter(call)
    /\ UNCHANGED search_vars
    /\ UNCHANGED <<world, mesh, d_global_box, pc, d_node_dim, nodes_in_box,
                   elements_in_box, d_rcb, export_elements, export_element_procs,
                   net_elements, net_nodes, num_import_elements,
                   num_import_nodes, rendezvous_elements, rendezvous_nodes,
                   d_rendezvous_mesh, d_kdtree>>

\* Mutant of QueryElements: the call leaves the node dimension at three,
\* the size it padded its point to.
QueryElementsPadding(r) ==
    /\ pc[r] = "done"
    /\ last_call = NoCall
    /\ \E batch \in QueryBatches(d_node_dim[r]) :
          LET coords == Blocked(batch, d_node_dim[r])
              call   == [rank |-> r, op |-> "getElements", coords |-> coords,
                         result |-> CallGetElements(r, coords)]
          IN  /\ last_call' = call
              /\ kept_call' = KeptAfter(call)
    /\ d_node_dim' = [d_node_dim EXCEPT ![r] = 3]
    /\ UNCHANGED search_vars
    /\ UNCHANGED <<world, mesh, d_global_box, pc, nodes_in_box,
                   elements_in_box, d_rcb, export_elements, export_element_procs,
                   net_elements, net_nodes, num_import_elements,
                   num_import_nodes, rendezvous_elements, rendezvous_nodes,
                   d_rendezvous_mesh, d_kdtree>>

QueryElements(r) ==
    /\ pc[r] = "done"
    /\ last_call = NoCall
    /\ \E batch \in QueryBatches(d_node_dim[r]) :
          LET coords == Blocked(batch, d_node_dim[r])
              call   == [rank |-> r, op |-> "getElements", coords |-> coords,
                         result |-> CallGetElements(r, coords)]
          IN  /\ last_call' = call
              /\ kept_call' = KeptAfter(call)
    /\ UNCHANGED search_vars
    /\ UNCHANGED <<world, mesh, d_global_box, pc, d_node_dim, nodes_in_box,
                   elements_in_box, d_rcb, export_elements, export_element_procs,
                   net_elements, net_nodes, num_import_elements,
                   num_import_nodes, rendezvous_elements, rendezvous_nodes,
                   d_rendezvous_mesh, d_kdtree>>

\* The caller is done with the result of its call.
Forget ==
    /\ last_call # NoCall
    /\ last_call' = NoCall
    /\ UNCHANGED <<kept_call>>
    /\ UNCHANGED search_vars
    /\ UNCHANGED <<world, mesh, d_global_box, pc, d_node_dim, nodes_in_box,
                   elements_in_box, d_rcb, export_elements, export_element_procs,
                   net_elements, net_nodes, num_import_elements,
                   num_import_nodes, rendezvous_elements, rendezvous_nodes,
                   d_rendezvous_mesh, d_kdtree>>

\* The result of the call is kept, to be compared with a later one.
Keep ==
    /\ last_call # NoCall
    /\ kept_call' = [call |-> last_call, others |-> FALSE]
    /\ UNCHANGED <<last_call>>
    /\ UNCHANGED search_vars
    /\ UNCHANGED <<world, mesh, d_global_box, pc, d_node_dim, nodes_in_box,
                   elements_in_box, d_rcb, export_elements, export_element_procs,
                   net_elements, net_nodes, num_import_elements,
                   num_import_nodes, rendezvous_elements, rendezvous_nodes,
                   d_rendezvous_mesh, d_kdtree>>

----------------------------------------------------------------------------
(* The operations of the PriorityQueue, each with its assertion: a failed  *)
(* assertion ends the program, the queue as it was.                        *)

\* The rendezvous of a program that only uses the queue.
NoWorld ==
    [dim   |-> 1,
     X     |-> [k \in NodeNums |-> 0],
     Y     |-> [k \in NodeNums |-> 0],
     conn  |-> [j \in ElemNums |-> <<j, j>>],
     owner |-> [j \in ElemNums |-> 0]]

RendezvousIdle ==
    /\ world = NoWorld
    /\ mesh = [s \in Ranks |-> NullMesh]
    /\ Constructed

\* The record of an operation on the queue as it is now.
Operation(op, arg, passed, touched) ==
    [op |-> op, arg |-> arg, heap |-> _heap, size |-> _size, passed |-> passed,
     touched |-> touched]

\* Mutant of push: the assertion is left out.
pushUnchecked(elem) ==
    /\ pq_last.passed
    /\ \E after \in {PushBody(_heap, _size, elem)} :
          /\ _heap' = after.heap
          /\ _size' = after.size
          /\ pq_last' = Operation("push", elem, TRUE, after.touched)
    /\ UNCHANGED <<rendezvous_vars, tree_vars>>

push(elem) ==
    /\ pq_last.passed
    /\ IF _size < _max_size
       THEN \E after \in {PushBody(_heap, _size, elem)} :
               /\ _heap' = after.heap
               /\ _size' = after.size
               /\ pq_last' = Operation("push", elem, TRUE, after.touched)
       ELSE /\ pq_last' = Operation("push", elem, FALSE, {})
            /\ UNCHANGED <<_heap, _size>>
    /\ UNCHANGED <<rendezvous_vars, tree_vars>>

pop ==
    /\ pq_last.passed
    /\ IF _size > 0
       THEN \E after \in {PopBody(_heap, _size)} :
               /\ _heap' = after.heap
               /\ _size' = after.size
               /\ pq_last' = Operation("pop", 0, TRUE, after.touched)
       ELSE /\ pq_last' = Operation("pop", 0, FALSE, {})
            /\ UNCHANGED <<_heap, _size>>
    /\ UNCHANGED <<rendezvous_vars, tree_vars>>

pop_push(elem) ==
    /\ pq_last.passed
    /\ IF _size < _max_size
       THEN \E after \in {PopPushBody(_heap, _size, elem)} :
               /\ _heap' = after.heap
               /\ _size' = after.size
               /\ pq_last' = Operation("pop_push", elem, TRUE, after.touched)
       ELSE /\ pq_last' = Operation("pop_push", elem, FALSE, {})
            /\ UNCHANGED <<_heap, _size>>
    /\ UNCHANGED <<rendezvous_vars, tree_vars>>

\* top returns _heap[0]; the value is kept as the argument of the record.
top ==
    /\ pq_last.passed
    /\ IF _size > 0
       THEN pq_last' = Operation("top", HeapGet(_heap, 0), TRUE, {0})
       ELSE pq_last' = Operation("top", 0, FALSE, {})
    /\ UNCHANGED <<_heap, _size>>
    /\ UNCHANGED <<rendezvous_vars, tree_vars>>

clear ==
    /\ pq_last.passed
    /\ _size' = 0
    /\ pq_last' = Operation("clear", 0, TRUE, {})
    /\ UNCHANGED <<_heap>>
    /\ UNCHANGED <<rendezvous_vars, tree_vars>>

----------------------------------------------------------------------------
(* The unit tests of the DistributedSearchTree.  The constructor and       *)
(* query are collective: a rank makes its next call of query once every   *)
(* rank has made the calls before it.                                      *)

\* The ranks make the tree of a test from their boxes.
makeDistributedSearchTree(test, comm_size) ==
    /\ dst_tree = NoTree
    /\ dst_tree' = Tree(test, comm_size)
    /\ UNCHANGED <<dst_pc, dst_out>>
    /\ UNCHANGED <<rendezvous_vars, queue_vars>>

\* Rank r makes its next call of query and finds the arrays the test
\* requires.
checkResults(r) ==
    /\ dst_tree # NoTree
    /\ r < dst_tree.comm_size
    /\ dst_pc[r] < Len(Checks(dst_tree.test, dst_tree.comm_size, r))
    /\ \A s \in Ranks : s < dst_tree.comm_size => dst_pc[s] >= dst_pc[r]
    /\ dst_pc' = [dst_pc EXCEPT ![r] = @ + 1]
    /\ dst_out' = [dst_out EXCEPT
                     ![r] = Checks(dst_tree.test, dst_tree.comm_size, r)[dst_pc[r] + 1]]
    /\ UNCHANGED dst_tree
    /\ UNCHANGED <<rendezvous_vars, queue_vars>>

----------------------------------------------------------------------------
Next ==
    \/ \E r \in Ranks : BuildBegin(r)
    \/ Partition
    \/ PartitionFails
    \/ \E r \in Ranks : ExportElements(r)
    \/ \E r \in Ranks : ImportElements(r)
    \/ \E r \in Ranks : ImportNodes(r)
    \/ \E r \in Ranks : ImportMesh(r)
    \/ \E r \in Ranks : BuildKDTree(r)

Spec == Init /\ [][Next]_vars

\* Build, then queries on the ranks that have returned from it, on the
\* worlds whose elements are all listed by rank 0 and whose nodes are
\* numbered from left to right.
QueryInit ==
    /\ Init
    /\ \A j \in ElemNums : world.owner[j] = 0
    /\ \A k1, k2 \in NodeNums : k1 < k2 => world.X[k1] <= world.X[k2]

QueryNext ==
    \/ Next
    \/ \E r \in Ranks : QueryProcs(r)
    \/ \E r \in Ranks : QueryElements(r)
    \/ Forget

QuerySpec == QueryInit /\ [][QueryNext]_vars

\* Build and queries with a call kept for comparison, on the worlds of
\* dimension one whose nodes lie at x = 0, 1, 2 and the worlds whose nodes
\* all lie outside the box.
RepeatInit ==
    /\ QueryInit
    /\ \/ world.dim = 1 /\ \A k \in NodeNums : world.X[k] = k - 1
       \/ \A k \in NodeNums : world.X[k] = MaxCoord

RepeatNext ==
    \/ QueryNext
    \/ Keep

RepeatSpec == RepeatInit /\ [][RepeatNext]_vars

\* Build on meshes with one input error.
FaultNext ==
    \/ Next
    \/ \E r \in Ranks : BuildBeginUndefined(r)
    \/ \E r \in Ranks : ExportElementsUndefined(r)

FaultSpec == FaultInit /\ [][FaultNext]_vars

\* Build on the worlds of dimension one whose nodes lie at x = 0, 1, 2 and
\* the worlds whose nodes all lie outside the box, for the properties of
\* who waits for whom, which the geometry does not enter.
WaitInit ==
    /\ Init
    /\ \/ world.dim = 1 /\ \A k \in NodeNums : world.X[k] = k - 1
       \/ \A k \in NodeNums : world.X[k] = MaxCoord

WaitSpec == WaitInit /\ [][Next]_vars

\* A program that uses one PriorityQueue, whose array starts with whatever
\* the memory held.
QueueInit ==
    /\ RendezvousIdle
    /\ TreeIdle
    /\ _heap \in [Slots -> Values]
    /\ _size = 0
    /\ pq_last = NoOperation(_heap)

QueueNext ==
    \/ \E elem \in Values : push(elem)
    \/ pop
    \/ \E elem \in Values : pop_push(elem)
    \/ top
    \/ clear

QueueSpec == QueueInit /\ [][QueueNext]_vars

\* A run of the unit tests of the DistributedSearchTree: one test on one
\* number of ranks.
TreeInit ==
    /\ RendezvousIdle
    /\ SearchIdle

TreeNext ==
    \/ \E test \in Tests, comm_size \in CommSizes :
          makeDistributedSearchTree(test, comm_size)
    \/ \E r \in Ranks : checkResults(r)

TreeSpec == TreeInit /\ [][TreeNext]_vars

----------------------------------------------------------------------------
(* Properties.  The expected values are read from the world, the global    *)
(* mesh the source meshes were cut from, never from the arrays build made. *)

AllDone == \A r \in Ranks : pc[r] = "done"

ElemNodes(j) == {world.conn[j][1], world.conn[j][2]}

NodeInBox(k) ==
    CellContains(d_global_box.lo, d_global_box.hi, WorldPoint(world, k))

ElemInBox(j) == \E k \in ElemNodes(j) : NodeInBox(k)

\* The rank the partition of rank r routes node k to.
NodeRoute(r, k) == GetDestinationProc(d_rcb[r], WorldPoint(world, k))

ElemRoutes(r, j) == {NodeRoute(r, k) : k \in ElemNodes(j)}

HasElement(r, j) == ElemGid(j) \in Range(rendezvous_elements[r])

HasNode(r, k) == NodeGid(k) \in Range(rendezvous_nodes[r])

NoDuplicates(a) == \A i, j \in 1 .. Len(a) : i # j => a[i] # a[j]

\* C1: after build, every node ordinal in the connectivity of an element of
\* the rendezvous mesh of rank r is a rendezvous node of rank r, and so is
\* every node of every rendezvous element as the source mesh defines it.
C1_ElementNodesPresent ==
    \A r \in Ranks :
        pc[r] = "done" =>
            /\ Range(d_rendezvous_mesh[r].connectivity)
                  \subseteq Range(d_rendezvous_mesh[r].nodes)
            /\ \A j \in ElemNums :
                  HasElement(r, j) => \A k \in ElemNodes(j) : HasNode(r, k)

\* C1 witness: a built rank holds an element one of whose nodes routes to
\* another rank.
C1_Witness ==
    \E r \in Ranks, j \in ElemNums :
        /\ pc[r] = "done"
        /\ HasElement(r, j)
        /\ \E k \in ElemNodes(j) : NodeRoute(r, k) # r

\* C2: after build, every element with a node in the global box is a
\* rendezvous element of at least one rank.
C2_InBoxElementPresent ==
    AllDone => \A j \in ElemNums : ElemInBox(j) => \E r \in Ranks : HasElement(r, j)

\* C2 witness: build is over and an element has one node in the box and one
\* node outside.
C2_Witness ==
    /\ AllDone
    /\ \E j \in ElemNums : ElemInBox(j) /\ \E k \in ElemNodes(j) : ~NodeInBox(k)

\* C3: once rank s has posted its element sends, the ranks it sends an
\* in-box element to are exactly the destination procs of the element's
\* nodes; after build the element is on rank r iff one of its nodes routes
\* to r.
C3_ElementDestinations ==
    /\ \A s \in Ranks, j \in ElemNums :
          /\ pc[s] \in {"import_elements", "import_nodes", "import_mesh",
                        "build_kdtree", "done"}
          /\ world.owner[j] = s
          /\ ElemInBox(j)
          => {q \in Ranks : ElemGid(j) \in Range(net_elements[s][q])}
                = ElemRoutes(s, j)
    /\ AllDone =>
          \A r \in Ranks, j \in ElemNums :
              ElemInBox(j) => (HasElement(r, j) <=> r \in ElemRoutes(r, j))

\* C3 witness: build is over and an in-box element went to two ranks, in a
\* mesh of dimension two.
C3_Witness ==
    /\ AllDone
    /\ world.dim = 2
    /\ \E j \in ElemNums : ElemInBox(j) /\ Cardinality(ElemRoutes(0, j)) = 2

\* The points queries are made with: the grid points of the mesh dimension.
QueryPoints ==
    {<<x, y, 0>> : x \in 0 .. MaxCoord, y \in IF world.dim >= 2 THEN {0, 1} ELSE {0}}

PointInGlobalBox(p) == CellContains(d_global_box.lo, d_global_box.hi, p)

ElemContains(j, p) ==
    CellContains(WorldCell(world, j).lo, WorldCell(world, j).hi, p)

\* p is in the relative interior of element j.
ElemInterior(j, p) ==
    \A d \in 1 .. 3 :
        LET c == WorldCell(world, j)
        IN  IF c.lo[d] = c.hi[d] THEN p[d] = c.lo[d]
            ELSE c.lo[d] < p[d] /\ p[d] < c.hi[d]

\* C4 (as claimed): after build, every in-box element containing a point p
\* of the global box is a rendezvous element of the rank p routes to.
C4_ElementOnRankOfPoint ==
    AllDone =>
        \A p \in QueryPoints, j \in ElemNums :
            PointInGlobalBox(p) /\ ElemInBox(j) /\ ElemContains(j, p)
            => HasElement(GetDestinationProc(d_rcb[0], p), j)

\* C5 (as claimed): after build, for every in-box element e and interior
\* point p of e, findPoint on the rank p routes to returns the ordinal of e.
C5_RoundTrip ==
    AllDone =>
        \A p \in QueryPoints, j \in ElemNums :
            ElemInBox(j) /\ ElemInterior(j, p)
            => FindPoint(d_kdtree[GetDestinationProc(d_rcb[0], p)], p) = ElemGid(j)

\* C6: the rendezvous node and element arrays of a rank hold no ordinal
\* twice.
C6_NoDuplicates ==
    \A r \in Ranks :
        NoDuplicates(rendezvous_nodes[r]) /\ NoDuplicates(rendezvous_elements[r])

\* C6 witness: a built rank received a node ordinal more than once, from
\* two source ranks.
C6_Witness ==
    \E r \in Ranks :
        /\ pc[r] = "done"
        /\ num_import_nodes[r] > Len(rendezvous_nodes[r])
        /\ \E s1, s2 \in Ranks :
              s1 # s2 /\ Range(net_nodes[s1][r]) \cap Range(net_nodes[s2][r]) # {}

\* What the inputs alone say rank r must hold.
ExpectedElements(r) ==
    SetToArray({ElemGid(j) : j \in {jj \in ElemNums :
                                      ElemInBox(jj) /\ r \in ElemRoutes(r, jj)}})

ExpectedNodes(r) ==
    SetToArray({NodeGid(k) : k \in {kk \in NodeNums :
        \E j \in ElemNums :
            kk \in ElemNodes(j) /\ ElemInBox(j) /\ r \in ElemRoutes(r, j)}})

\* C7: the arrays a rank ends the two exchanges with are a function of the
\* source meshes, the communicator size and the box alone, whatever order
\* the messages arrived in.
C7_Deterministic ==
    \A r \in Ranks :
        /\ pc[r] \in {"import_nodes", "import_mesh", "build_kdtree", "done"}
              => rendezvous_elements[r] = ExpectedElements(r)
        /\ pc[r] \in {"import_mesh", "build_kdtree", "done"}
              => rendezvous_nodes[r] = ExpectedNodes(r)

\* C7 witness: a built rank got node messages from two ranks and holds more
\* than one node.
C7_Witness ==
    \E r \in Ranks :
        /\ pc[r] = "done"
        /\ Cardinality({s \in Ranks : net_nodes[s][r] # <<>>}) >= 2
        /\ Len(rendezvous_nodes[r]) >= 2

\* C8: every rendezvous element ordinal is the ordinal of an in-box element
\* of a source mesh and every rendezvous node ordinal the ordinal of a node
\* of a source mesh.
C8_OrdinalsPreserved ==
    \A r \in Ranks :
        /\ Range(rendezvous_elements[r])
              \subseteq {ElemGid(j) : j \in {jj \in ElemNums : ElemInBox(jj)}}
        /\ Range(rendezvous_nodes[r])
              \subseteq UNION {Range(mesh[s].nodes) : s \in Ranks}

\* C8 witness: a built rank holds elements and nodes it got from another
\* rank.
C8_Witness ==
    \E r \in Ranks :
        /\ pc[r] = "done"
        /\ rendezvous_elements[r] # <<>>
        /\ \E s \in Ranks : s # r /\ net_nodes[s][r] # <<>>

\* C9: in the rendezvous mesh, local node j carries the coordinates of the
\* source node with its ordinal and local element n the connectivity of the
\* source element with its ordinal, slot by slot.
C9_DataAligned ==
    \A r \in Ranks :
        pc[r] = "done" =>
            LET m == d_rendezvous_mesh[r]
                N == Len(m.nodes)
                E == Len(m.elements)
            IN  /\ m.nodes = rendezvous_nodes[r]
                /\ m.elements = rendezvous_elements[r]
                /\ Len(m.coords) = world.dim * N
                /\ Len(m.connectivity) = mesh[r].nodes_per_element * E
                /\ \A k \in NodeNums, j \in 0 .. N - 1, d \in 0 .. world.dim - 1 :
                      At(m.nodes, j) = NodeGid(k)
                      => At(m.coords, d * N + j) = WorldPoint(world, k)[d + 1]
                /\ \A e \in ElemNums, n \in 0 .. E - 1, i \in 0 .. 1 :
                      At(m.elements, n) = ElemGid(e)
                      => At(m.connectivity, i * E + n) = NodeGid(world.conn[e][i + 1])

\* C9 witness: a built rank of a two-dimensional mesh holds two elements and
\* three nodes, one of them off the x axis.
C9_Witness ==
    \E r \in Ranks :
        /\ pc[r] = "done"
        /\ world.dim = 2
        /\ Len(rendezvous_elements[r]) = 2
        /\ Len(rendezvous_nodes[r]) = 3
        /\ \E k \in NodeNums : HasNode(r, k) /\ world.Y[k] = 1

\* C10: an element with every node outside the global box is a rendezvous
\* element of no rank and is sent to no rank.
C10_OutOfBoxNotShipped ==
    \A j \in ElemNums :
        ~ElemInBox(j) =>
            \A r, s \in Ranks :
                ~HasElement(r, j) /\ ElemGid(j) \notin Range(net_elements[s][r])

\* C10 witness: build is over, an element lies outside the box and one of
\* its nodes routes to a rank that holds another element.
C10_Witness ==
    /\ AllDone
    /\ \E j \in ElemNums, r \in Ranks :
          /\ ~ElemInBox(j)
          /\ r \in ElemRoutes(r, j)
          /\ rendezvous_elements[r] # <<>>

\* The sum over the ranks in S of the sizes of the arrays a[r].
RECURSIVE SumLen(_, _)
SumLen(a, S) ==
    IF S = {} THEN 0
    ELSE LET r == CHOOSE x \in S : TRUE
         IN  Len(a[r]) + SumLen(a, S \ {r})

InBoxElems == {j \in ElemNums : ElemInBox(j)}

\* C11: after build, the sizes of rendezvous_elements over all ranks add up
\* to at least the number of in-box source elements, and to exactly that
\* number iff no in-box element has nodes routed to two different ranks.
C11_ElementCount ==
    AllDone =>
        LET total == SumLen(rendezvous_elements, Ranks)
        IN  /\ total >= Cardinality(InBoxElems)
            /\ (total = Cardinality(InBoxElems))
                  <=> \A j \in InBoxElems : Cardinality(ElemRoutes(0, j)) = 1

\* C11 witness: build is over, one in-box element has nodes routed to two
\* ranks and another has all its nodes routed to one rank.
C11_Witness ==
    /\ AllDone
    /\ \E j1, j2 \in InBoxElems :
          /\ Cardinality(ElemRoutes(0, j1)) = 2
          /\ Cardinality(ElemRoutes(0, j2)) = 1
    /\ SumLen(rendezvous_elements, Ranks) = 3

StrictlyAscending(a) == \A i \in 1 .. Len(a) - 1 : a[i] < a[i + 1]

\* The number of members of S below g: the rank of g in the sorted set.
RankIn(S, g) == Cardinality({h \in S : h < g})

\* C20: once a rank has made its received ordinals unique, rendezvous_nodes
\* and rendezvous_elements are in strictly ascending order, and the local
\* index of an ordinal is its rank in the sorted set of the ordinals the
\* rank received.
C20_AscendingOrder ==
    \A r \in Ranks :
        /\ StrictlyAscending(rendezvous_elements[r])
        /\ StrictlyAscending(rendezvous_nodes[r])
        /\ pc[r] \in {"import_nodes", "import_mesh", "build_kdtree", "done"} =>
              LET got == UNION {Range(net_elements[s][r]) : s \in Ranks}
              IN  /\ Range(rendezvous_elements[r]) = got
                  /\ \A g \in got :
                        FindIndex(IndexMap(rendezvous_elements[r]), g) = RankIn(got, g)
        /\ pc[r] \in {"import_mesh", "build_kdtree", "done"} =>
              LET got == UNION {Range(net_nodes[s][r]) : s \in Ranks}
              IN  /\ Range(rendezvous_nodes[r]) = got
                  /\ \A g \in got :
                        FindIndex(IndexMap(rendezvous_nodes[r]), g) = RankIn(got, g)

\* C20 witness: a built rank holds two elements and three nodes, and one
\* source rank sent it its ordinals in descending order.
C20_Witness ==
    \E r \in Ranks :
        /\ pc[r] = "done"
        /\ Len(rendezvous_elements[r]) = 2
        /\ Len(rendezvous_nodes[r]) = 3
        /\ \E s \in Ranks :
              /\ Len(net_elements[s][r]) = 2
              /\ net_elements[s][r][1] > net_elements[s][r][2]

----------------------------------------------------------------------------
(* Queries.  Point n of a call is read off the caller's array as the claim *)
(* states the layout: axis k of point n at k*N + n, zero beyond the mesh   *)
(* dimension.                                                              *)

CallNumPoints(call) == Len(call.coords) \div world.dim

CallPoint(call, n) ==
    <<At(call.coords, n - 1),
      IF world.dim >= 2 THEN At(call.coords, CallNumPoints(call) + n - 1) ELSE 0,
      0>>

\* C12: for every point of a getRendezvousProcs call that lies in the global
\* box the call returns one rank, the rank is in [0, comm_size), and every
\* built rank returns the same rank for the same array.
C12_OneRankInRange ==
    last_call.op = "getRendezvousProcs" =>
        /\ Len(last_call.result) = CallNumPoints(last_call)
        /\ \A n \in 1 .. CallNumPoints(last_call) :
              PointInGlobalBox(CallPoint(last_call, n)) =>
                  /\ last_call.result[n] \in Ranks
                  /\ \A s \in Ranks :
                        pc[s] = "done" =>
                            CallGetRendezvousProcs(s, last_call.coords)[n]
                               = last_call.result[n]

\* C12 witness: every rank is built and a call returned the highest rank
\* for a point of the box.
C12_Witness ==
    /\ AllDone
    /\ last_call.op = "getRendezvousProcs"
    /\ \E n \in 1 .. CallNumPoints(last_call) :
          /\ PointInGlobalBox(CallPoint(last_call, n))
          /\ last_call.result[n] = NumRanks - 1

\* C13: a call with an array of length d*N returns N results, and result n
\* is the lookup (destination proc, or element found) of the point whose
\* axis-k coordinate is coords[k*N + n], in input order.
C13_BlockedLayout ==
    last_call # NoCall =>
        /\ Len(last_call.coords) = world.dim * CallNumPoints(last_call)
        /\ Len(last_call.result) = CallNumPoints(last_call)
        /\ \A n \in 1 .. CallNumPoints(last_call) :
              last_call.result[n] =
                 IF last_call.op = "getRendezvousProcs"
                 THEN GetDestinationProc(d_rcb[last_call.rank], CallPoint(last_call, n))
                 ELSE FindPoint(d_kdtree[last_call.rank], CallPoint(last_call, n))

\* C13 witness: a getElements call in dimension two with two points that
\* differ in both coordinates returned two different entries.
C13_Witness ==
    /\ last_call.op = "getElements"
    /\ world.dim = 2
    /\ CallNumPoints(last_call) = 2
    /\ \A d \in 1 .. 2 : CallPoint(last_call, 1)[d] # CallPoint(last_call, 2)[d]
    /\ last_call.result[1] # last_call.result[2]
    /\ last_call.result[1] # Sentinel

\* The ordinals of the rendezvous elements of rank r that contain p.
HeldContaining(r, p) ==
    {ElemGid(j) : j \in {jj \in ElemNums : HasElement(r, jj) /\ ElemContains(jj, p)}}

\* The array a caller passes for the single point p.
SinglePoint(p) == [d \in 1 .. world.dim |-> p[d]]

\* C14: a getElements call returns an entry for every point; the entry of a
\* point no rendezvous element of the rank contains is the sentinel, every
\* entry is what the call with that point alone returns, and the sentinel
\* is the ordinal of no rendezvous element.
C14_MissIsSentinel ==
    /\ \A r \in Ranks : Sentinel \notin Range(rendezvous_elements[r])
    /\ last_call.op = "getElements" =>
          /\ Len(last_call.result) = CallNumPoints(last_call)
          /\ \A n \in 1 .. CallNumPoints(last_call) :
                /\ HeldContaining(last_call.rank, CallPoint(last_call, n)) = {}
                      => last_call.result[n] = Sentinel
                /\ last_call.result[n] =
                      CallGetElements(last_call.rank,
                                      SinglePoint(CallPoint(last_call, n)))[1]

\* C14 witness: a getElements call with two points returned an element for
\* the first and the sentinel for the second, which lies outside the global
\* box.
C14_Witness ==
    /\ last_call.op = "getElements"
    /\ CallNumPoints(last_call) = 2
    /\ last_call.result[1] # Sentinel
    /\ last_call.result[2] = Sentinel
    /\ ~PointInGlobalBox(CallPoint(last_call, 2))

SameCall(a, b) == a.rank = b.rank /\ a.op = b.op /\ a.coords = b.coords

\* C15: a call on a built rank returns what the kept call of the same rank,
\* operation and array returned, whatever was queried in between.
C15_Idempotent ==
    kept_call.call # NoCall /\ SameCall(kept_call.call, last_call)
        => last_call.result = kept_call.call.result

\* C15 witness: a getElements call that found an element was kept, another
\* query was made on the rank, and the call was made again.
C15_Witness ==
    /\ kept_call.call.op = "getElements"
    /\ kept_call.others
    /\ SameCall(kept_call.call, last_call)
    /\ \E n \in 1 .. Len(last_call.result) : last_call.result[n] # Sentinel

\* C16: once build has returned on a rank, no step, and so no query, changes
\* its node dimension, partition, rendezvous mesh or kD-tree.
C16_QueriesChangeNothing ==
    [][\A r \in Ranks :
          pc[r] = "done" =>
              /\ d_node_dim'[r] = d_node_dim[r]
              /\ d_rcb'[r] = d_rcb[r]
              /\ d_rendezvous_mesh'[r] = d_rendezvous_mesh[r]
              /\ d_kdtree'[r] = d_kdtree[r]]_vars

\* C16 witness: a query was made on a rank that holds elements while
\* another rank was still in build.
C16_Witness ==
    /\ last_call # NoCall
    /\ d_kdtree[last_call.rank] # <<>>
    /\ \E s \in Ranks : pc[s] \notin {"done", "failed"}

----------------------------------------------------------------------------
(* Input errors and failures.                                              *)

Left == {"done", "failed", "crashed"}

InvalidMesh(m) == ~LookupsDefined(m) \/ m.node_dim \notin {1, 2, 3}

\* C19 (as claimed): a rank whose mesh names an unknown node or declares a
\* dimension outside {1,2,3} leaves build with InvalidInput before any
\* lookup is made.
C19_InvalidInputRejected ==
    \A r \in Ranks : InvalidMesh(mesh[r]) => pc[r] \in {"start", "invalid_input"}

\* C17 (as claimed): no rank returns from build while another has failed,
\* and when a rank has failed and no rank can take a step, every rank has
\* failed.
C17_FailureIsCollective ==
    /\ ~(\E r, s \in Ranks : pc[r] = "done" /\ pc[s] \in {"failed", "crashed"})
    /\ (\E s \in Ranks : pc[s] \in {"failed", "crashed"}) /\ ~ENABLED FaultNext
          => \A r \in Ranks : pc[r] \in {"failed", "crashed"}

\* C18 (as claimed): no rank waits in build for ever for a rank that has
\* left it: when a rank has left build and no rank can take a step, every
\* rank has left build.
C18_EveryRankLeaves ==
    (\E s \in Ranks : pc[s] \in Left) /\ (\E r \in Ranks : pc[r] \notin Left)
        => ENABLED FaultNext

----------------------------------------------------------------------------
(* One rank holds the whole source mesh.                                   *)

EmptySource(r) == NumNodesOf(mesh[r]) = 0 /\ NumElementsOf(mesh[r]) = 0

OneRankHoldsAll == \E s \in Ranks : \A r \in Ranks \ {s} : EmptySource(r)

\* Every entry of the result of a getElements call is the sentinel.
AllSentinel(call) == \A n \in 1 .. Len(call.result) : call.result[n] = Sentinel

----------------------------------------------------------------------------
(* The flags of getMeshInBox, kept from the partition to the import of the *)
(* mesh.                                                                   *)

Flagged(r) == pc[r] \in {"partition", "export_elements", "import_elements",
                         "import_nodes", "import_mesh"}

\* The world number of local node n and of local element n of rank r.
LocalNodeNum(r, n) == mesh[r].nodes[n] - NodeGid(0)

LocalElemNum(r, n) == mesh[r].elements[n] - ElemGid(0)

LocalElemNums(r) == {LocalElemNum(r, n) : n \in 1 .. NumElementsOf(mesh[r])}

\* C22: after getMeshInBox a local node is flagged iff it lies in the global
\* box or is a node of a local element with a node in the box; a local
\* element is flagged iff one of its nodes lies in the box, so an element
\* whose nodes were flagged by the expansion alone is not flagged.
C22_ActiveFlags ==
    \A r \in Ranks :
        Flagged(r) =>
            /\ Len(nodes_in_box[r]) = NumNodesOf(mesh[r])
            /\ Len(elements_in_box[r]) = NumElementsOf(mesh[r])
            /\ \A n \in 1 .. NumNodesOf(mesh[r]) :
                  /\ nodes_in_box[r][n] \in {0, 1}
                  /\ nodes_in_box[r][n] = 1 <=>
                        \/ NodeInBox(LocalNodeNum(r, n))
                        \/ \E j \in LocalElemNums(r) :
                              LocalNodeNum(r, n) \in ElemNodes(j) /\ ElemInBox(j)
            /\ \A n \in 1 .. NumElementsOf(mesh[r]) :
                  /\ elements_in_box[r][n] \in {0, 1}
                  /\ elements_in_box[r][n] = 1 <=> ElemInBox(LocalElemNum(r, n))

\* C22 witness: a rank holds a node outside the box that the expansion
\* flagged, and an element of that node with no node in the box, which is
\* not flagged.
C22_Witness ==
    \E r \in Ranks :
        /\ Flagged(r)
        /\ \E n \in 1 .. NumNodesOf(mesh[r]), e \in 1 .. NumElementsOf(mesh[r]) :
              /\ ~NodeInBox(LocalNodeNum(r, n))
              /\ nodes_in_box[r][n] = 1
              /\ LocalNodeNum(r, n) \in ElemNodes(LocalElemNum(r, e))
              /\ elements_in_box[r][e] = 0

----------------------------------------------------------------------------
(* The node sends of setupImportCommunication.                             *)

NodesPosted(s) == pc[s] \in {"import_nodes", "import_mesh", "build_kdtree", "done"}

\* The ranks that rank s sends its local node k to.
NodeSentTo(s, k) == {q \in Ranks : NodeGid(k) \in Range(net_nodes[s][q])}

LocalNodeNums(s) == {LocalNodeNum(s, n) : n \in 1 .. NumNodesOf(mesh[s])}

\* C23: the ranks a local node is sent to are the union of the destination
\* sets of the local in-box elements that contain it; a node of no in-box
\* element is sent nowhere, also when it lies in the box.
C23_NodesFollowElements ==
    \A s \in Ranks :
        NodesPosted(s) =>
            \A k \in LocalNodeNums(s) :
                /\ NodeSentTo(s, k) =
                      UNION {ElemRoutes(s, j) :
                                j \in {jj \in LocalElemNums(s) :
                                          ElemInBox(jj) /\ k \in ElemNodes(jj)}}
                /\ (\A j \in LocalElemNums(s) : ElemInBox(j) => k \notin ElemNodes(j))
                      => NodeSentTo(s, k) = {}

\* C23 witness: a node is sent to a rank its own coordinates do not route
\* to.
C23_Witness ==
    \E s \in Ranks :
        /\ NodesPosted(s)
        /\ \E k \in LocalNodeNums(s) : NodeSentTo(s, k) \ {NodeRoute(s, k)} # {}

\* A node in the box that no element uses is sent nowhere.
OrphanInBoxStays ==
    \E s \in Ranks :
        /\ NodesPosted(s)
        /\ \E k \in LocalNodeNums(s) : NodeInBox(k) /\ NodeSentTo(s, k) = {}

----------------------------------------------------------------------------
(* Where a rank waits for the others after the partition.                  *)

\* The next step of rank r in sendMeshToRendezvous and the kD-tree build.
RankStep(r) ==
    \/ ExportElements(r)
    \/ ImportElements(r)
    \/ ImportNodes(r)
    \/ ImportMesh(r)
    \/ BuildKDTree(r)

\* Every rank has entered the stage, or passed it.
AllEntered(stage) ==
    \A s \in Ranks :
        \/ pc[s] = stage
        \/ /\ stage = "import_elements"
           /\ pc[s] \in {"import_nodes", "import_mesh", "build_kdtree", "done"}
        \/ /\ stage = "import_nodes"
           /\ pc[s] \in {"import_mesh", "build_kdtree", "done"}
        \/ /\ stage = "import_mesh"
           /\ pc[s] \in {"build_kdtree", "done"}

\* The element exchange is complete on rank r: it has counted every element
\* ordinal sent to it.
ElementsReceived(r) ==
    num_import_elements[r] = SumLen([s \in Ranks |-> net_elements[s][r]], Ranks)

\* C24 (as claimed): after the partition a rank can be held up by other
\* ranks only in the element exchange and, after it, in the node exchange;
\* its other steps can be taken whatever the other ranks are doing.
C24_WaitsOnlyInExchanges ==
    \A r \in Ranks :
        /\ pc[r] \in {"export_elements", "import_mesh", "build_kdtree"}
              => ENABLED RankStep(r)
        /\ pc[r] = "import_nodes" => ElementsReceived(r)

\* C24 (amended): after the partition a rank is held up by other ranks in
\* the element exchange, then in the node exchange, and then in the import
\* of the coordinates and the connectivity, each until every rank has
\* entered it; the computation of the element destinations and the kD-tree
\* build are never held up.
C24_WaitsInExchangesAndImport ==
    \A r \in Ranks :
        /\ pc[r] \in {"export_elements", "build_kdtree"} => ENABLED RankStep(r)
        /\ pc[r] \in {"import_elements", "import_nodes", "import_mesh"}
              => (ENABLED RankStep(r) <=> AllEntered(pc[r]))
        /\ pc[r] = "import_nodes" => ElementsReceived(r)

\* C24 witness: a rank is through both exchanges and is held up in the
\* import of the mesh by a rank that is still in the node exchange, while a
\* third rank has not been held up computing its element destinations.
C24_Witness ==
    \E r, s \in Ranks :
        /\ pc[r] = "import_mesh"
        /\ pc[s] = "import_nodes"
        /\ ~ENABLED RankStep(r)
        /\ num_import_elements[r] > 0

----------------------------------------------------------------------------
(* PriorityQueue.  A state whose last operation passed its assertions is   *)
(* the state after a sequence of operations all of which passed.           *)

\* The number of slots in use of a heap of the given size that hold v.
Count(heap, size, v) == Cardinality({i \in 0 .. size - 1 : HeapGet(heap, i) = v})

Stored(heap, size) == {HeapGet(heap, i) : i \in 0 .. size - 1}

\* C25: while every assertion has passed and the queue is not empty, no
\* slot in use holds more than its parent, no stored element is greater
\* than the one in slot 0, and top returns the element of slot 0.
C25_TopIsMaximum ==
    pq_last.passed /\ _size > 0 =>
        /\ \A i \in 1 .. _size - 1 : ~Less(_heap[(i - 1) \div 2], _heap[i])
        /\ \A x \in Stored(_heap, _size) : ~Less(_heap[0], x)
        /\ pq_last.op = "top" => pq_last.arg = SetMax(Stored(_heap, _size))

\* C25 witness: pop has just taken the greatest of four elements, not all
\* equal, off a full queue, and an element less than the new top remains.
C25_Witness ==
    /\ pq_last.op = "pop"
    /\ pq_last.passed
    /\ pq_last.size = _max_size
    /\ \E x \in Stored(_heap, _size) : Less(x, _heap[0])
    /\ Less(_heap[0], pq_last.heap[0])

\* C26: push adds one occurrence of its argument and nothing else, pop
\* removes one occurrence of the element that was on top and nothing else,
\* each moving the size by one, and clear leaves the queue empty.
C26_Multiset ==
    pq_last.passed =>
        /\ pq_last.op = "push" =>
              /\ _size = pq_last.size + 1
              /\ \A v \in Values :
                    Count(_heap, _size, v) =
                       Count(pq_last.heap, pq_last.size, v)
                          + (IF v = pq_last.arg THEN 1 ELSE 0)
        /\ pq_last.op = "pop" =>
              /\ _size = pq_last.size - 1
              /\ \A v \in Values :
                    Count(_heap, _size, v) =
                       Count(pq_last.heap, pq_last.size, v)
                          - (IF v = pq_last.heap[0] THEN 1 ELSE 0)
        /\ pq_last.op = "clear" => _size = 0 /\ Stored(_heap, _size) = {}

\* C26 witness: pop took one of two occurrences of the greatest element off
\* a queue of three or more.
C26_Witness ==
    /\ pq_last.op = "pop"
    /\ pq_last.passed
    /\ pq_last.size >= 3
    /\ Count(pq_last.heap, pq_last.size, pq_last.heap[0]) = 2
    /\ Count(_heap, _size, pq_last.heap[0]) = 1

\* The queue that pop followed by push(elem) leaves.
PopThenPush(heap, size, elem) ==
    LET popped == PopBody(heap, size)
    IN  PushBody(popped.heap, popped.size, elem)

\* C27 (as claimed): whenever pop_push(x) passes its assertions, pop would
\* pass its own, and pop_push leaves the elements, the size and the top
\* that pop followed by push(x) leaves; x is stored afterwards.
C27_PopPushIsPopThenPush ==
    pq_last.op = "pop_push" /\ pq_last.passed =>
        /\ pq_last.arg \in Stored(_heap, _size)
        /\ pq_last.size > 0
        /\ LET ref == PopThenPush(pq_last.heap, pq_last.size, pq_last.arg)
           IN  /\ _size = ref.size
               /\ \A v \in Values :
                     Count(_heap, _size, v) = Count(ref.heap, ref.size, v)
               /\ _heap[0] = ref.heap[0]

\* pop_push on a queue that is not empty does what pop then push does.
PopPushOnNonEmpty ==
    pq_last.op = "pop_push" /\ pq_last.passed /\ pq_last.size > 0 =>
        /\ pq_last.arg \in Stored(_heap, _size)
        /\ LET ref == PopThenPush(pq_last.heap, pq_last.size, pq_last.arg)
           IN  /\ _size = ref.size
               /\ \A v \in Values :
                     Count(_heap, _size, v) = Count(ref.heap, ref.size, v)
               /\ _heap[0] = ref.heap[0]

\* C28: the size stays within 0 .. _max_size; an operation that passes its
\* assertions touches no slot outside the array; push and pop_push on a
\* full queue and pop and top on an empty one fail their assertion and
\* leave the queue as it was.
C28_WithinCapacity ==
    /\ 0 <= _size /\ _size <= _max_size
    /\ pq_last.passed => pq_last.touched \subseteq Slots
    /\ pq_last.op \in {"push", "pop_push"} /\ pq_last.size = _max_size
          => ~pq_last.passed
    /\ pq_last.op \in {"pop", "top"} /\ pq_last.size = 0 => ~pq_last.passed
    /\ ~pq_last.passed => _heap = pq_last.heap /\ _size = pq_last.size

\* C28 witness: push on a full queue has failed its assertion.
C28_Witness ==
    /\ pq_last.op = "push"
    /\ ~pq_last.passed
    /\ _size = _max_size

----------------------------------------------------------------------------
(* DistributedSearchTree.  The leaves are read from the boxes the ranks    *)
(* gave the tree, the distances are computed from the boxes and the query. *)

\* The leaves of the tree: the box number index (from 0) of a rank.
Leaves ==
    {leaf \in [rank : Ranks, index : 0 .. hello_world_n - 1] :
        leaf.index < Len(dst_tree.boxes[leaf.rank])}

LeafBox(leaf) == dst_tree.boxes[leaf.rank][leaf.index + 1]

\* How far a coordinate lies outside an interval.
Outside(x, lo, hi) == IF x < lo THEN lo - x ELSE IF x > hi THEN x - hi ELSE 0

\* The square of the distance from a point to a box.
DistanceSquared(point, box) ==
    Outside(point[1], box.lo[1], box.hi[1]) * Outside(point[1], box.lo[1], box.hi[1])
    + Outside(point[2], box.lo[2], box.hi[2]) * Outside(point[2], box.lo[2], box.hi[2])
    + Outside(point[3], box.lo[3], box.hi[3]) * Outside(point[3], box.lo[3], box.hi[3])

Overlaps(a, b) ==
    \A d \in 1 .. 3 : a.lo[d] <= b.hi[d] /\ b.lo[d] <= a.hi[d]

\* The leaves a spatial query selects.
Selected(kind, q) ==
    IF kind = "overlap"
    THEN {leaf \in Leaves : Overlaps(q.box, LeafBox(leaf))}
    ELSE {leaf \in Leaves :
             DistanceSquared(q.box.lo, LeafBox(leaf)) <= q.radius * q.radius}

\* The positions of the results of query i in the indices and the ranks.
Positions(out, i) == out.offset[i] + 1 .. out.offset[i + 1]

ResultAt(out, p) == [rank |-> out.ranks[p], index |-> out.indices[p]]

Asked(r) == r < dst_tree.comm_size /\ dst_out[r] # NoResult

EmptyTreeUnevenQueries ==
    \E r, s \in Ranks :
        /\ Asked(r) /\ Asked(s)
        /\ Leaves = {}
        /\ dst_pc[r] = dst_pc[s]
        /\ Len(dst_out[r].queries) = 2
        /\ Len(dst_out[s].queries) = 0

\* The results of a within query reach across two ranks.
WithinAcrossRanks ==
    \E r \in Ranks :
        /\ Asked(r)
        /\ dst_out[r].kind = "within"
        /\ Len(dst_out[r].indices) = hello_world_n + 1

SmallerOf(a, b) == IF a < b THEN a ELSE b

NearestOfNone ==
    \E r \in Ranks :
        /\ Asked(r)
        /\ dst_out[r].kind = "nearest"
        /\ Len(dst_out[r].queries) = 1
        /\ dst_out[r].queries[1].k = 0
        /\ Leaves # {}

\* The neighbour a rank is given lies on another rank than the leaves
\* around the query point's own cell.
NearestOnOtherRank ==
    \E r \in Ranks :
        /\ Asked(r)
        /\ dst_tree.test = "non_approximate_nearest_neighbors"
        /\ dst_out[r].ranks[1] # dst_tree.comm_size - 1 - r

====
